---- MODULE Spec2Model ----
(***************************************************************************)
(* Model of the Ollamana relay (ver2.go): one HTTP request served by       *)
(* handleOllamaAction or handleListModels, the backend call it issues, and *)
(* the streaming loop of callGenerateAPI / callChatAPI that turns the      *)
(* backend's line stream into Server-Sent Events. Spec follows one         *)
(* request; SpecPair follows two requests served by two goroutines whose   *)
(* steps interleave; SpecScan follows a streaming request from the bytes   *)
(* of the backend's body through bufio.Scanner; SpecLive adds the          *)
(* client's Timeout and fairness; SpecPage adds the stream reader of the   *)
(* page that made the request.                                             *)
(***************************************************************************)
EXTENDS Integers, Sequences, FiniteSets, TLC

\* Longest backend body, in lines (streams) or text pieces (plain bodies).
MaxLines == 3
\* Longest list of models the backend reports.
MaxModels == 2
\* Longest backend body when two requests are served.
PairMaxLines == 1
\* Longest backend body, in lines, when the line scanner is followed.
ScanMaxLines == 2
\* Longest backend body when termination or the page's reader is followed.
LiveMaxLines == 2

VARIABLES
    req,              \* the client's request: method, body validity, actionType, connection
    pc,               \* where the handler is: "start", "calling", "streaming", "done"
    backendCalls,     \* requests issued to the backend so far (client.Do)
    resp,             \* outcome of client.Do: none / connection error / response
    bodyOpen,         \* resp.Body has been obtained and not yet closed
    pos,              \* backend lines the scanner has returned so far
    readFailed,       \* reading resp.Body failed (scanner.Err(), io.ReadAll error)
    wStatus,          \* status code written to the client (0: none written)
    wContentType,     \* Content-Type header set on the response ("" : none)
    wBody,            \* body written by http.Error or w.Write (NoBody: none)
    events,           \* SSE events the handler has written with Fprintf, in order
    flushed,          \* how many of them flusher.Flush() has sent on
    received,         \* the events that reached the client
    clientConnected,  \* the client still holds its connection
    discAt,           \* value of pos when the client disconnected
    other,            \* the locals of a second handler goroutine while it is not
                      \* the one taking steps (NoOther: one request only)
    browser           \* the page's click handler that made the request: how far
                      \* its stream reader has got and what it has shown

vars == <<req, pc, backendCalls, resp, bodyOpen, pos, readFailed, wStatus,
          wContentType, wBody, events, flushed, received, clientConnected, discAt,
          other, browser>>

-----------------------------------------------------------------------------
\* Endpoints of the backend.
ollamaGenerateAPI == "http://localhost:11434/api/generate"
ollamaChatAPI == "http://localhost:11434/api/chat"
ollamaTagsAPI == "http://localhost:11434/api/tags"
ollamaPullAPI == "http://localhost:11434/api/pull"
ollamaDeleteAPI == "http://localhost:11434/api/delete"

\* net/http status codes used by the handlers.
StatusOK == 200
StatusBadRequest == 400
StatusMethodNotAllowed == 405
StatusInternalServerError == 500
StatusBadGateway == 502

-----------------------------------------------------------------------------
\* Backend lines the model draws streams from, as raw text.
LineBlank == ""
LineSentinel == "[DONE]"
LineGenHel == "{\"response\":\"Hel\",\"done\":false}"
LineGenLoDone == "{\"response\":\"lo\",\"done\":true}"
LineGenEmptyDone == "{\"response\":\"\",\"done\":true}"
LineChatHel == "{\"message\":{\"content\":\"Hel\"},\"done\":false}"
LineChatLoDone == "{\"message\":{\"content\":\"lo\"},\"done\":true}"
LineChatEmpty == "{\"message\":{\"content\":\"\"},\"done\":false}"
LineBadType == "{\"response\":5,\"done\":true}"
\* A final generate chunk whose context array makes the line longer than
\* the scanner's buffer may grow (bufio.MaxScanTokenSize, 64 KiB).
LineGenHuge == "{\"response\":\"lo\",\"done\":true,\"context\":[1,2,3, ... ]}"

Lines == {LineBlank, LineSentinel, LineGenHel, LineGenLoDone, LineGenEmptyDone,
          LineChatHel, LineChatLoDone, LineChatEmpty, LineBadType}

\* What the JSON text of a line holds: whether it is a JSON value that fits
\* the chunk struct, and the members present in it.
JSONText(line) ==
    CASE line = LineGenHel ->
           [fits |-> TRUE, hasResponse |-> TRUE, response |-> "Hel",
            hasMessage |-> FALSE, content |-> "", hasDone |-> TRUE, done |-> FALSE]
      [] line = LineGenLoDone ->
           [fits |-> TRUE, hasResponse |-> TRUE, response |-> "lo",
            hasMessage |-> FALSE, content |-> "", hasDone |-> TRUE, done |-> TRUE]
      [] line = LineGenEmptyDone ->
           [fits |-> TRUE, hasResponse |-> TRUE, response |-> "",
            hasMessage |-> FALSE, content |-> "", hasDone |-> TRUE, done |-> TRUE]
      [] line = LineChatHel ->
           [fits |-> TRUE, hasResponse |-> FALSE, response |-> "",
            hasMessage |-> TRUE, content |-> "Hel", hasDone |-> TRUE, done |-> FALSE]
      [] line = LineChatLoDone ->
           [fits |-> TRUE, hasResponse |-> FALSE, response |-> "",
            hasMessage |-> TRUE, content |-> "lo", hasDone |-> TRUE, done |-> TRUE]
      [] line = LineChatEmpty ->
           [fits |-> TRUE, hasResponse |-> FALSE, response |-> "",
            hasMessage |-> TRUE, content |-> "", hasDone |-> TRUE, done |-> FALSE]
      [] line = LineGenHuge ->
           [fits |-> TRUE, hasResponse |-> TRUE, response |-> "lo",
            hasMessage |-> FALSE, content |-> "", hasDone |-> TRUE, done |-> TRUE]
      [] line = LineBadType ->  \* "response" holds a number: UnmarshalTypeError
           [fits |-> FALSE, hasResponse |-> FALSE, response |-> "",
            hasMessage |-> FALSE, content |-> "", hasDone |-> TRUE, done |-> TRUE]
      [] OTHER ->               \* not JSON at all: SyntaxError
           [fits |-> FALSE, hasResponse |-> FALSE, response |-> "",
            hasMessage |-> FALSE, content |-> "", hasDone |-> FALSE, done |-> FALSE]

\* The zero value of OllamaResponseChunk (var chunk OllamaResponseChunk).
ZeroChunk == [Response |-> "", Message |-> [isNil |-> TRUE, Content |-> ""], Done |-> FALSE]

\* json.Unmarshal([]byte(line), &chunk): members absent from the text keep
\* their zero value; err reports text that does not fit the struct.
Unmarshal(line) ==
    LET j == JSONText(line) IN
    [err   |-> ~j.fits,
     chunk |-> [Response |-> IF j.hasResponse THEN j.response ELSE ZeroChunk.Response,
                Message  |-> IF j.hasMessage
                             THEN [isNil |-> FALSE, Content |-> j.content]
                             ELSE ZeroChunk.Message,
                Done     |-> IF j.hasDone THEN j.done ELSE ZeroChunk.Done]]

-----------------------------------------------------------------------------
\* Sequences over S of length at most n.
SeqsUpTo(S, n) == UNION {[1..k -> S] : k \in 0..n}

\* Bodies of a successful streaming response.
StreamBodies == SeqsUpTo(Lines, MaxLines)

\* Pieces of text a plain backend body is made of; the first two are white space.
TextPieces == {" ", "\n", "model not found"}
IsSpace(piece) == piece \in {" ", "\n"}
TextBodies == SeqsUpTo(TextPieces, MaxLines)

\* strings.TrimSpace: leading and trailing white space removed.
RECURSIVE TrimLeft(_)
TrimLeft(s) == IF s # <<>> /\ IsSpace(Head(s)) THEN TrimLeft(Tail(s)) ELSE s
RECURSIVE TrimRight(_)
TrimRight(s) ==
    IF s # <<>> /\ IsSpace(s[Len(s)]) THEN TrimRight(SubSeq(s, 1, Len(s) - 1)) ELSE s
TrimSpace(s) == TrimRight(TrimLeft(s))

\* The body of a streaming response as bytes: lines, each a text and the
\* line end that follows it. The last line may end without "\n".
ScanTexts == {LineBlank, LineSentinel, LineGenHel, LineGenLoDone, LineChatLoDone, LineGenHuge}
LineEnds == {"\n", "\r\n"}
OpenEnds == {"", "\r"}
RawLines == [text : ScanTexts, end : LineEnds]
RawBodies ==
    LET closed == SeqsUpTo(RawLines, ScanMaxLines) IN
    closed \cup {[b EXCEPT ![Len(b)].end = e] :
                    b \in {c \in closed : c # <<>> /\ c[Len(c)].text # LineBlank},
                    e \in OpenEnds}

\* The line does not fit the scanner's buffer.
TooLong(text) == text = LineGenHuge

\* Mutant: data left at the end of the body without "\n" is thrown away.
TokenOrNoneDropsOpen(l, atEOF) ==
    CASE l.end = "\n" -> <<l.text>>
      [] l.end = "\r\n" -> <<l.text>>
      [] l.end \in OpenEnds /\ atEOF -> <<>>

\* bufio.ScanLines on one line: the text up to "\n" with a trailing "\r"
\* dropped; at the end of the body, what is left (a trailing "\r"
\* dropped) is a last token.
TokenOrNone(l, atEOF) ==
    CASE l.end = "\n" -> <<l.text>>
      [] l.end = "\r\n" -> <<l.text>>
      [] l.end \in OpenEnds /\ atEOF -> <<l.text>>

\* Mutant: a line that does not fit the buffer is passed over.
RECURSIVE ScanLinesSkipsTooLong(_)
ScanLinesSkipsTooLong(raw) ==
    IF raw = <<>> THEN [tokens |-> <<>>, err |-> FALSE]
    ELSE LET rest == ScanLinesSkipsTooLong(Tail(raw)) IN
         IF TooLong(Head(raw).text) THEN rest
         ELSE [tokens |-> TokenOrNone(Head(raw), Tail(raw) = <<>>) \o rest.tokens,
               err |-> rest.err]

\* The tokens scanner.Scan() returns for a body, and whether it then stops
\* with bufio.ErrTooLong instead of the end of the body.
RECURSIVE ScanLines(_)
ScanLines(raw) ==
    IF raw = <<>> THEN [tokens |-> <<>>, err |-> FALSE]
    ELSE IF TooLong(Head(raw).text) THEN [tokens |-> <<>>, err |-> TRUE]
    ELSE LET rest == ScanLines(Tail(raw)) IN
         [tokens |-> TokenOrNone(Head(raw), Tail(raw) = <<>>) \o rest.tokens,
          err |-> rest.err]

\* Statuses the backend answers with.
BackendStatuses == {200, 201, 404, 500}

\* Bodies of the tags endpoint: text that does not decode, an object with
\* no models array, or an object whose models array holds model objects
\* (each with a name and fields the relay does not keep).
ModelNames == {"llama2", "mistral"}
ModelObjects == [name : ModelNames, digest : {"sha256:ab"}]
NoTags == [kind |-> "none", models |-> <<>>]
TagsBodies ==
    {[kind |-> "invalid", models |-> <<>>], [kind |-> "nomodels", models |-> <<>>]}
    \cup {[kind |-> "array", models |-> ms] : ms \in SeqsUpTo(ModelObjects, MaxModels)}

NoResp == [state |-> "none", status |-> 0, lines |-> <<>>, text |-> <<>>, tags |-> NoTags]
ConnErr == [state |-> "error", status |-> 0, lines |-> <<>>, text |-> <<>>, tags |-> NoTags]

Methods == {"POST", "GET"}
ActionTypes == {"generate", "chat", "pull", "delete", "bogus"}

\* The two endpoints the relay serves (main).
ActionPath == "/api/ollama-action"
ModelsPath == "/api/models"

\* What the body of a client request carries besides actionType: every
\* field, the model alone, or nothing (absent fields decode to zero values).
ClientContents ==
    {[model |-> "llama2", prompt |-> "hi",
      messages |-> <<[role |-> "user", content |-> "hi"],
                     [role |-> "assistant", content |-> "yo"]>>],
     [model |-> "llama2", prompt |-> "", messages |-> <<>>],
     [model |-> "", prompt |-> "", messages |-> <<>>]}

\* Requests to the action endpoint, and requests to the models endpoint
\* (whose body is not read).
Requests ==
    {[path |-> ActionPath, method |-> m, jsonOK |-> j, actionType |-> a,
      model |-> c.model, prompt |-> c.prompt, messages |-> c.messages,
      flusher |-> f] :
        m \in Methods, j \in BOOLEAN, a \in ActionTypes, c \in ClientContents,
        f \in BOOLEAN}
    \cup {[path |-> ModelsPath, method |-> m, jsonOK |-> TRUE, actionType |-> "",
            model |-> "", prompt |-> "", messages |-> <<>>, flusher |-> TRUE] :
              m \in Methods}

-----------------------------------------------------------------------------
\* A body written to the client: a format and what fills it.
\* The page before its click handler has got the response of fetch().
NoPage == [state |-> "fetching", read |-> 0, parsed |-> <<>>, shown |-> <<>>,
           warned |-> <<>>, cancelled |-> FALSE]
NoBody == [format |-> "", status |-> 0, text |-> <<>>]
Body(format, status, text) == [format |-> format, status |-> status, text |-> text]

\* No second request is being served.
NoOther == [pc |-> "absent"]
Paired == other # NoOther

\* The state every handler starts in.
InitLocals ==
    /\ pc = "start"
    /\ backendCalls = <<>>
    /\ resp = NoResp
    /\ bodyOpen = FALSE
    /\ pos = 0
    /\ readFailed = FALSE
    /\ wStatus = 0
    /\ wContentType = ""
    /\ wBody = NoBody
    /\ events = <<>>
    /\ flushed = 0
    /\ received = <<>>
    /\ clientConnected = TRUE
    /\ discAt = 0
    /\ browser = NoPage

Init ==
    /\ req \in Requests
    /\ InitLocals
    /\ other = NoOther

\* http.Error(w, msg, code): a plain-text body with the given status.
httpError(code, msg) ==
    /\ wStatus' = code
    /\ wContentType' = "text/plain; charset=utf-8"
    /\ wBody' = msg

\* fmt.Fprintf(w, "data: %s\n\n", payload): one event on the wire.
SSEEvent(payload) == <<"data: ", payload, "\n\n">>

\* Mutant: chat requests are sent to the generate endpoint.
EndpointChatToGenerate(actionType) ==
    CASE actionType \in {"generate", "chat"} -> [url |-> ollamaGenerateAPI, method |-> "POST"]
      [] actionType = "pull" -> [url |-> ollamaPullAPI, method |-> "POST"]
      [] actionType = "delete" -> [url |-> ollamaDeleteAPI, method |-> "DELETE"]

\* The endpoint and method each action is sent to.
Endpoint(actionType) ==
    CASE actionType = "generate" -> [url |-> ollamaGenerateAPI, method |-> "POST"]
      [] actionType = "chat" -> [url |-> ollamaChatAPI, method |-> "POST"]
      [] actionType = "pull" -> [url |-> ollamaPullAPI, method |-> "POST"]
      [] actionType = "delete" -> [url |-> ollamaDeleteAPI, method |-> "DELETE"]

\* Mutant: an unknown action type falls through to the generate call.
handlerForDefaultGenerate(actionType) ==
    IF actionType \in {"chat", "pull", "delete"} THEN actionType ELSE "generate"

\* switch clientReq.ActionType: the call* function selected, "none" for the
\* default case.
handlerFor(actionType) ==
    IF actionType \in {"generate", "chat", "pull", "delete"} THEN actionType ELSE "none"

\* The payload each call* function marshals from the client's request.
payloadFor(api, r) ==
    CASE api = "generate" -> [model |-> r.model, prompt |-> r.prompt, stream |-> TRUE]
      [] api = "chat" -> [model |-> r.model, messages |-> r.messages, stream |-> TRUE]
      [] api \in {"pull", "delete"} -> [name |-> r.model]

\* The request a call* function hands to client.Do.
backendRequest(api, r) ==
    [url |-> Endpoint(api).url, method |-> Endpoint(api).method,
     payload |-> payloadFor(api, r)]

\* Mutant: the body is decoded before the method is looked at.
handleOllamaActionDecodesFirst ==
    /\ pc = "start"
    /\ req.path = ActionPath
    /\ IF ~req.jsonOK
       THEN /\ httpError(StatusBadRequest, Body("Invalid request payload: %s", 0, <<>>))
            /\ pc' = "done"
            /\ UNCHANGED backendCalls
       ELSE IF req.method # "POST"
       THEN /\ httpError(StatusMethodNotAllowed, Body("Method not allowed", 0, <<>>))
            /\ pc' = "done"
            /\ UNCHANGED backendCalls
       ELSE IF handlerFor(req.actionType) # "none"
       THEN /\ backendCalls' = Append(backendCalls,
                                      backendRequest(handlerFor(req.actionType), req))
            /\ pc' = "calling"
            /\ UNCHANGED <<wStatus, wContentType, wBody>>
       ELSE /\ httpError(StatusBadRequest, Body("Unknown action type: %s", 0, <<>>))
            /\ pc' = "done"
            /\ UNCHANGED backendCalls
    /\ UNCHANGED <<req, other, browser, flushed, resp, bodyOpen, pos, readFailed, events, received,
                   clientConnected, discAt>>

\* handleOllamaAction up to the point where the selected call* function
\* blocks in client.Do. json.Marshal of a payload of strings and
\* http.NewRequest with a constant URL do not fail, so their error returns
\* are not steps of the model.
handleOllamaAction ==
    /\ pc = "start"
    /\ req.path = ActionPath
    /\ IF req.method # "POST"
       THEN /\ httpError(StatusMethodNotAllowed, Body("Method not allowed", 0, <<>>))
            /\ pc' = "done"
            /\ UNCHANGED backendCalls
       ELSE IF ~req.jsonOK
       THEN /\ httpError(StatusBadRequest, Body("Invalid request payload: %s", 0, <<>>))
            /\ pc' = "done"
            /\ UNCHANGED backendCalls
       ELSE IF handlerFor(req.actionType) # "none"
       THEN /\ backendCalls' = Append(backendCalls,
                                      backendRequest(handlerFor(req.actionType), req))
            /\ pc' = "calling"
            /\ UNCHANGED <<wStatus, wContentType, wBody>>
       ELSE /\ httpError(StatusBadRequest, Body("Unknown action type: %s", 0, <<>>))
            /\ pc' = "done"
            /\ UNCHANGED backendCalls
    /\ UNCHANGED <<req, other, browser, flushed, resp, bodyOpen, pos, readFailed, events, received,
                   clientConnected, discAt>>

-----------------------------------------------------------------------------
\* Mutant: the event-stream headers are set before the call is made, and
\* the failure is reported in-band.
connErrInStream ==
    /\ pc = "calling"
    /\ resp' = ConnErr
    /\ wContentType' = "text/event-stream"
    /\ wStatus' = StatusOK
    /\ events' = Append(events, <<"data: ", "Could not connect to Ollama.", "\n\n">>)
    /\ received' = IF clientConnected THEN events' ELSE received
    /\ pc' = "done"
    /\ UNCHANGED <<req, other, browser, flushed, backendCalls, bodyOpen, pos, readFailed, wBody,
                   clientConnected, discAt>>

\* Mutant: after a failed connection the request is sent once more.
connErrRetriesOnce ==
    /\ pc = "calling"
    /\ IF Len(backendCalls) < 2
       THEN /\ backendCalls' = Append(backendCalls, backendCalls[1])
            /\ UNCHANGED <<resp, pc, wStatus, wContentType, wBody>>
       ELSE /\ resp' = ConnErr
            /\ httpError(StatusBadGateway, Body("Could not connect to Ollama. %s", 0, <<>>))
            /\ pc' = "done"
            /\ UNCHANGED backendCalls
    /\ UNCHANGED <<req, other, browser, flushed, bodyOpen, pos, readFailed, events, received,
                   clientConnected, discAt>>

\* client.Do(req) returns an error: 502, no stream.
connErr ==
    /\ pc = "calling"
    /\ resp' = ConnErr
    /\ httpError(StatusBadGateway, Body("Could not connect to Ollama. %s", 0, <<>>))
    /\ pc' = "done"
    /\ UNCHANGED <<req, other, browser, flushed, backendCalls, bodyOpen, pos, readFailed, events, received,
                   clientConnected, discAt>>

\* What the backend may answer on a streaming endpoint.
StreamResponses ==
    {[state |-> "ok", status |-> StatusOK, lines |-> b, text |-> <<>>, tags |-> NoTags] :
        b \in StreamBodies}
    \cup {[state |-> "ok", status |-> st, lines |-> <<>>, text |-> t, tags |-> NoTags] :
             st \in BackendStatuses \ {StatusOK}, t \in TextBodies}

\* What the backend may answer on a plain endpoint.
PlainResponses ==
    {[state |-> "ok", status |-> st, lines |-> <<>>, text |-> t, tags |-> NoTags] :
             st \in BackendStatuses, t \in TextBodies}

\* What the backend may answer when two requests are served: bodies of at
\* most PairMaxLines lines, text pieces or models.
PairLines == {LineGenHel, LineGenLoDone, LineChatHel, LineChatLoDone}
PairTextBodies == SeqsUpTo({"model not found"}, PairMaxLines)
PairStreamResponses ==
    {[state |-> "ok", status |-> StatusOK, lines |-> b, text |-> <<>>, tags |-> NoTags] :
        b \in SeqsUpTo(PairLines, PairMaxLines)}
    \cup {[state |-> "ok", status |-> 404, lines |-> <<>>, text |-> t, tags |-> NoTags] :
             t \in PairTextBodies}
PairPlainResponses ==
    {[state |-> "ok", status |-> st, lines |-> <<>>, text |-> t, tags |-> NoTags] :
             st \in {StatusOK, 404}, t \in PairTextBodies}
PairListResponses ==
    {[state |-> "ok", status |-> StatusOK, lines |-> <<>>, text |-> <<>>,
      tags |-> [kind |-> "array", models |-> ms]] :
        ms \in SeqsUpTo(ModelObjects, PairMaxLines)}
    \cup {[state |-> "ok", status |-> 404, lines |-> <<>>, text |-> t, tags |-> NoTags] :
             t \in PairTextBodies}

\* What the backend may answer on a streaming endpoint, as bytes: lines are
\* the tokens the scanner makes of them.
ScanStreamResponses ==
    {[state |-> "ok", status |-> StatusOK, lines |-> ScanLines(b).tokens, text |-> <<>>,
      tags |-> NoTags, raw |-> b] : b \in RawBodies}

\* The scanner stops with bufio.ErrTooLong after the lines of the response.
scanErr(r) == "raw" \in DOMAIN r /\ ScanLines(r.raw).err

\* What the backend may answer on the tags endpoint.
ListResponses ==
    {[state |-> "ok", status |-> StatusOK, lines |-> <<>>, text |-> <<>>, tags |-> b] :
        b \in TagsBodies}
    \cup {[state |-> "ok", status |-> st, lines |-> <<>>, text |-> t, tags |-> NoTags] :
             st \in BackendStatuses \ {StatusOK}, t \in TextBodies}

\* Mutant: every 2xx status counts as success.
isSuccess2xx(status) == status >= 200 /\ status <= 299

\* if resp.StatusCode != http.StatusOK { error path }
isSuccess(status) == status = StatusOK

\* Mutant: the backend's error is reported as an internal error of the relay.
apiErrorAsInternal(format, r) ==
    httpError(StatusInternalServerError, Body(format, r.status, TrimSpace(r.text)))

\* Mutant: the backend's status is relayed without the backend's text.
apiErrorOmitsText(format, r) == httpError(r.status, Body(format, r.status, <<>>))

\* The backend's error answer as reported to the client.
apiError(format, r) == httpError(r.status, Body(format, r.status, TrimSpace(r.text)))

\* Mutant: the event-stream headers are set before the status is looked at.
streamRespHeadersFirst(r) ==
    /\ pc = "calling"
    /\ resp' = r
    /\ wContentType' = "text/event-stream"
    /\ IF ~isSuccess(r.status)
       THEN /\ wStatus' = r.status
            /\ wBody' = Body("Ollama API error: Status %d, Message: %s", r.status,
                             TrimSpace(r.text))
            /\ pc' = "done"
            /\ bodyOpen' = FALSE
       ELSE /\ wBody' = wBody
            /\ IF req.flusher
               THEN /\ pc' = "streaming"
                    /\ bodyOpen' = TRUE
                    /\ wStatus' = wStatus
               ELSE /\ pc' = "done"
                    /\ bodyOpen' = FALSE
                    /\ wStatus' = StatusOK
    /\ UNCHANGED <<req, other, browser, flushed, backendCalls, pos, readFailed, events, received,
                   clientConnected, discAt>>

\* A variant that does not test w.(http.Flusher) and enters the read loop
\* on any connection.
streamRespAssumesFlusher(r) ==
    /\ pc = "calling"
    /\ resp' = r
    /\ IF ~isSuccess(r.status)
       THEN /\ apiError("Ollama API error: Status %d, Message: %s", r)
            /\ pc' = "done"
            /\ bodyOpen' = FALSE
       ELSE /\ wContentType' = "text/event-stream"
            /\ wBody' = wBody
            /\ pc' = "streaming"
            /\ bodyOpen' = TRUE
            /\ wStatus' = wStatus
    /\ UNCHANGED <<req, other, browser, flushed, backendCalls, pos, readFailed, events, received,
                   clientConnected, discAt>>

\* The response arrives: the status check, the switch to event-stream mode
\* and the flusher check, up to the first scanner.Scan().
streamResp(r) ==
    /\ pc = "calling"
    /\ resp' = r
    /\ IF ~isSuccess(r.status)
       THEN /\ apiError("Ollama API error: Status %d, Message: %s", r)
            /\ pc' = "done"
            /\ bodyOpen' = FALSE
       ELSE /\ wContentType' = "text/event-stream"
            /\ wBody' = wBody
            /\ IF req.flusher
               THEN /\ pc' = "streaming"
                    /\ bodyOpen' = TRUE
                    /\ wStatus' = wStatus
               ELSE /\ pc' = "done"
                    /\ bodyOpen' = FALSE
                    /\ wStatus' = StatusOK
    /\ UNCHANGED <<req, other, browser, flushed, backendCalls, pos, readFailed, events, received,
                   clientConnected, discAt>>

\* Mutant: every chunk is forwarded, whatever its response text.
generateForwardsAll(chunk) == TRUE

\* if chunk.Response != ""
generateForwards(chunk) == chunk.Response # ""

\* if chunk.Message != nil && chunk.Message.Content != ""
chatForwards(chunk) == ~chunk.Message.isNil /\ chunk.Message.Content # ""

\* Mutant: the error of json.Unmarshal is not looked at.
skipsBlankOnly(line) == line = ""

\* The lines the loop passes over with continue: blank, or not a chunk.
skipsLine(line) == line = "" \/ Unmarshal(line).err

\* if chunk.Done { ... }
isLast(chunk) == chunk.Done

\* Mutant: the loop goes on reading after the terminal event.
loopNeverExits(fin) == FALSE

\* The break that ends the loop after the terminal event.
loopExits(fin) == fin

\* json.Marshal of a chunk: every member of the struct, in the struct's order.
Marshal(chunk) ==
    CASE chunk = Unmarshal(LineGenHel).chunk ->
           "{\"model\":\"\",\"created_at\":\"\",\"response\":\"Hel\",\"message\":null,\"done\":false}"
      [] chunk = Unmarshal(LineGenLoDone).chunk ->
           "{\"model\":\"\",\"created_at\":\"\",\"response\":\"lo\",\"message\":null,\"done\":true}"
      [] chunk = Unmarshal(LineChatHel).chunk ->
           "{\"model\":\"\",\"created_at\":\"\",\"response\":\"\",\"message\":{\"role\":\"\",\"content\":\"Hel\"},\"done\":false}"
      [] chunk = Unmarshal(LineChatLoDone).chunk ->
           "{\"model\":\"\",\"created_at\":\"\",\"response\":\"\",\"message\":{\"role\":\"\",\"content\":\"lo\"},\"done\":true}"
      [] OTHER ->
           "{\"model\":\"\",\"created_at\":\"\",\"response\":\"\",\"message\":null,\"done\":true}"

\* Mutant: the chunk is encoded again instead of the line being passed on.
loopWritesReencoded(line, fwd, fin) ==
    (IF fwd THEN <<<<"data: ", Marshal(Unmarshal(line).chunk), "\n\n">>>> ELSE <<>>)
    \o (IF fin THEN <<<<"data: ", "[DONE]", "\n\n">>>> ELSE <<>>)

\* A variant that passes every non-blank line on as a data event, parsed or
\* not.
loopWritesEveryLine(line, fwd, fin) ==
    (IF line # "" THEN <<<<"data: ", line, "\n\n">>>> ELSE <<>>)
    \o (IF fin THEN <<<<"data: ", "[DONE]", "\n\n">>>> ELSE <<>>)

\* Mutant: the terminal event is left out.
loopWritesNoTerminal(line, fwd, fin) ==
    IF fwd THEN <<<<"data: ", line, "\n\n">>>> ELSE <<>>

\* Mutant: the completion flag is handled before the content.
loopWritesTerminalFirst(line, fwd, fin) ==
    (IF fin THEN <<<<"data: ", "[DONE]", "\n\n">>>> ELSE <<>>)
    \o (IF fwd THEN <<<<"data: ", line, "\n\n">>>> ELSE <<>>)

\* What one iteration writes for a chunk: the raw line if it is forwarded,
\* then the terminal event if the chunk is the last.
loopWrites(line, fwd, fin) ==
    (IF fwd THEN <<SSEEvent(line)>> ELSE <<>>)
    \o (IF fin THEN <<SSEEvent("[DONE]")>> ELSE <<>>)

\* Mutant: new writes are put in front of the earlier ones.
writtenInFront(evs, out) == out \o evs

\* Writes reach the response in the order they are made.
written(evs, out) == evs \o out

\* Mutant: the events stay in the response's buffer until the handler returns.
flushesNothing(sent, evs) == sent

\* flusher.Flush() after each Fprintf: everything written so far is sent on.
flushes(sent, evs) == Len(evs)

\* A variant that forwards a chunk when either content field is set,
\* whichever action is being served.
forwardsEither(api, chunk) == generateForwards(chunk) \/ chatForwards(chunk)

\* The forwarding test of the handler that runs the loop.
forwards(api, chunk) ==
    IF api = "generate" THEN generateForwards(chunk) ELSE chatForwards(chunk)

\* One iteration of for scanner.Scan() { ... } in the handler of api.
streamScan(api) ==
    /\ pc = "streaming"
    /\ pos < Len(resp.lines)
    /\ LET line == resp.lines[pos + 1]
           chunk == Unmarshal(line).chunk
           fwd == ~skipsLine(line) /\ forwards(api, chunk)
           fin == ~skipsLine(line) /\ isLast(chunk)
           out == loopWrites(line, fwd, fin)
       IN /\ pos' = pos + 1
          /\ events' = written(events, out)
          /\ flushed' = flushes(flushed, events')
          /\ received' = IF clientConnected THEN written(received, out) ELSE received
          /\ pc' = IF loopExits(fin) THEN "done" ELSE "streaming"
          /\ bodyOpen' = ~loopExits(fin)
          /\ wStatus' = IF out # <<>> \/ loopExits(fin) THEN StatusOK ELSE wStatus
    /\ UNCHANGED <<req, other, browser, backendCalls, resp, readFailed, wContentType, wBody,
                   clientConnected, discAt>>

\* Mutant: a terminal event is made up when the stream ends.
eofWritesTerminal == <<<<"data: ", "[DONE]", "\n\n">>>>

\* What the handler writes when the backend's stream ends.
eofWrites == <<>>

\* A variant that returns at the end of the stream without closing the
\* backend's body.
streamEOFLeavesOpen ==
    /\ pc = "streaming"
    /\ pos = Len(resp.lines)
    /\ ~scanErr(resp)
    /\ events' = written(events, eofWrites)
    /\ received' = IF clientConnected THEN written(received, eofWrites) ELSE received
    /\ pc' = "done"
    /\ bodyOpen' = bodyOpen
    /\ wStatus' = StatusOK
    /\ UNCHANGED <<req, other, browser, flushed, backendCalls, resp, pos, readFailed, wContentType, wBody,
                   clientConnected, discAt>>

\* scanner.Scan() returns false at the end of the backend's stream.
streamEOF ==
    /\ pc = "streaming"
    /\ pos = Len(resp.lines)
    /\ ~scanErr(resp)
    /\ events' = written(events, eofWrites)
    /\ received' = IF clientConnected THEN written(received, eofWrites) ELSE received
    /\ pc' = "done"
    /\ bodyOpen' = FALSE
    /\ wStatus' = StatusOK
    /\ UNCHANGED <<req, other, browser, flushed, backendCalls, resp, pos, readFailed, wContentType, wBody,
                   clientConnected, discAt>>

\* Mutant: a read failure is reported in-band and the stream is closed with
\* the terminal event.
streamReadErrInBand ==
    /\ pc = "streaming"
    /\ readFailed' = TRUE
    /\ events' = events \o <<SSEEvent("Error reading Ollama response stream"),
                             SSEEvent(LineSentinel)>>
    /\ received' = IF clientConnected THEN events' ELSE received
    /\ pc' = "done"
    /\ bodyOpen' = FALSE
    /\ wStatus' = StatusOK
    /\ UNCHANGED <<req, other, browser, flushed, backendCalls, resp, pos, wContentType, wBody,
                   clientConnected, discAt>>

\* scanner.Scan() returns false with scanner.Err() set: a read error, or the
\* client's Timeout elapsing while the body is read. It is logged only.
streamReadErr ==
    /\ pc = "streaming"
    /\ readFailed' = TRUE
    /\ pc' = "done"
    /\ bodyOpen' = FALSE
    /\ wStatus' = StatusOK
    /\ UNCHANGED <<req, other, browser, flushed, backendCalls, resp, pos, wContentType, wBody, events,
                   received, clientConnected, discAt>>

callGenerateAPI_connErr == req.actionType = "generate" /\ connErr
callGenerateAPI_resp == req.actionType = "generate" /\ pc = "calling" /\ \E r \in (IF Paired THEN PairStreamResponses ELSE StreamResponses) : streamResp(r)
callGenerateAPI_scan == req.actionType = "generate" /\ streamScan("generate")
callGenerateAPI_eof == req.actionType = "generate" /\ streamEOF
callGenerateAPI_readErr == req.actionType = "generate" /\ streamReadErr
callGenerateAPI_respBytes ==
    /\ req.actionType = "generate"
    /\ pc = "calling"
    /\ \E r \in ScanStreamResponses : streamResp(r)
callGenerateAPI_tooLong ==
    /\ req.actionType = "generate"
    /\ pos = Len(resp.lines)
    /\ scanErr(resp)
    /\ streamReadErr

callChatAPI_connErr == req.actionType = "chat" /\ connErr
callChatAPI_resp == req.actionType = "chat" /\ pc = "calling" /\ \E r \in (IF Paired THEN PairStreamResponses ELSE StreamResponses) : streamResp(r)
callChatAPI_scan == req.actionType = "chat" /\ streamScan("chat")
callChatAPI_eof == req.actionType = "chat" /\ streamEOF
callChatAPI_readErr == req.actionType = "chat" /\ streamReadErr
callChatAPI_respBytes ==
    /\ req.actionType = "chat"
    /\ pc = "calling"
    /\ \E r \in ScanStreamResponses : streamResp(r)
callChatAPI_tooLong ==
    /\ req.actionType = "chat"
    /\ pos = Len(resp.lines)
    /\ scanErr(resp)
    /\ streamReadErr

-----------------------------------------------------------------------------
\* A variant that relays the success body with the white space around it
\* trimmed, as the error path does.
plainRespTrimmed(r, readOK, readErrFormat, apiErrFormat) ==
    /\ pc = "calling"
    /\ resp' = r
    /\ IF ~readOK
       THEN httpError(StatusInternalServerError, Body(readErrFormat, 0, <<>>))
       ELSE IF ~isSuccess(r.status)
       THEN apiError(apiErrFormat, r)
       ELSE /\ wContentType' = "text/plain"
            /\ wStatus' = StatusOK
            /\ wBody' = Body("%s", 0, TrimSpace(r.text))
    /\ readFailed' = ~readOK
    /\ pc' = "done"
    /\ bodyOpen' = FALSE
    /\ UNCHANGED <<req, other, browser, flushed, backendCalls, pos, events, received, clientConnected, discAt>>

\* callModelPullAPI / callModelDeleteAPI after client.Do: the whole body is
\* read (readOK: io.ReadAll returned no error), then the status decides
\* between an error and the plain-text body.
plainResp(r, readOK, readErrFormat, apiErrFormat) ==
    /\ pc = "calling"
    /\ resp' = r
    /\ IF ~readOK
       THEN httpError(StatusInternalServerError, Body(readErrFormat, 0, <<>>))
       ELSE IF ~isSuccess(r.status)
       THEN apiError(apiErrFormat, r)
       ELSE /\ wContentType' = "text/plain"
            /\ wStatus' = StatusOK
            /\ wBody' = Body("%s", 0, r.text)
    /\ readFailed' = ~readOK
    /\ pc' = "done"
    /\ bodyOpen' = FALSE
    /\ UNCHANGED <<req, other, browser, flushed, backendCalls, pos, events, received, clientConnected, discAt>>

callModelPullAPI_connErr == req.actionType = "pull" /\ connErr
callModelPullAPI_resp ==
    /\ req.actionType = "pull"
    /\ pc = "calling"
    /\ \E r \in (IF Paired THEN PairPlainResponses ELSE PlainResponses),
          readOK \in BOOLEAN :
          plainResp(r, readOK, "Error reading Ollama pull response: %s",
                    "Ollama API error pulling model: Status %d, Message: %s")

callModelDeleteAPI_connErr == req.actionType = "delete" /\ connErr
callModelDeleteAPI_resp ==
    /\ req.actionType = "delete"
    /\ pc = "calling"
    /\ \E r \in (IF Paired THEN PairPlainResponses ELSE PlainResponses),
          readOK \in BOOLEAN :
          plainResp(r, readOK, "Error reading Ollama delete response: %s",
                    "Ollama API error deleting model: Status %d, Message: %s")

-----------------------------------------------------------------------------
\* handleListModels up to the point where it blocks in client.Get.
handleListModels ==
    /\ pc = "start"
    /\ req.path = ModelsPath
    /\ IF req.method # "GET"
       THEN /\ httpError(StatusMethodNotAllowed, Body("Method not allowed", 0, <<>>))
            /\ pc' = "done"
            /\ UNCHANGED backendCalls
       ELSE /\ backendCalls' = Append(backendCalls, [url |-> ollamaTagsAPI, method |-> "GET"])
            /\ pc' = "calling"
            /\ UNCHANGED <<wStatus, wContentType, wBody>>
    /\ UNCHANGED <<req, other, browser, flushed, resp, bodyOpen, pos, readFailed, events, received,
                   clientConnected, discAt>>

\* client.Get returns an error.
handleListModels_connErr ==
    /\ pc = "calling"
    /\ req.path = ModelsPath
    /\ resp' = ConnErr
    /\ httpError(StatusBadGateway,
                 Body("Could not connect to Ollama to list models.", 0, <<>>))
    /\ pc' = "done"
    /\ UNCHANGED <<req, other, browser, flushed, backendCalls, bodyOpen, pos, readFailed, events, received,
                   clientConnected, discAt>>

\* json.NewDecoder(resp.Body).Decode(&tagsResponse): of each model object
\* only the name is kept; without a models array Models stays nil.
decodeTags(body) ==
    [err |-> body.kind = "invalid",
     tagsResponse |->
        [isNil |-> body.kind # "array",
         Models |-> [i \in 1..Len(body.models) |-> [Name |-> body.models[i].name]]]]

\* Mutant: the models are encoded last to first.
encodeTagsReversed(t) ==
    IF t.isNil THEN Body("{\"models\":null}", 0, <<>>)
    ELSE Body("{\"models\":[{\"name\":%s}, ...]}", 0,
              [i \in 1..Len(t.Models) |-> t.Models[Len(t.Models) + 1 - i].Name])

\* json.NewEncoder(w).Encode(tagsResponse): the names, in the order held.
encodeTags(t) ==
    IF t.isNil THEN Body("{\"models\":null}", 0, <<>>)
    ELSE Body("{\"models\":[{\"name\":%s}, ...]}", 0,
              [i \in 1..Len(t.Models) |-> t.Models[i].Name])

\* A variant that does not look at the decoder's error and encodes whatever
\* was decoded.
listRespIgnoresDecodeError(r) ==
    /\ pc = "calling"
    /\ resp' = r
    /\ IF ~isSuccess(r.status)
       THEN apiError("Ollama API error fetching models: Status %d, Message: %s", r)
       ELSE /\ wContentType' = "application/json"
            /\ wStatus' = StatusOK
            /\ wBody' = encodeTags(decodeTags(r.tags).tagsResponse)
    /\ pc' = "done"
    /\ bodyOpen' = FALSE
    /\ UNCHANGED <<req, other, browser, flushed, backendCalls, pos, readFailed, events, received,
                   clientConnected, discAt>>

\* The response of the tags endpoint arrives.
listResp(r) ==
    /\ pc = "calling"
    /\ resp' = r
    /\ IF ~isSuccess(r.status)
       THEN apiError("Ollama API error fetching models: Status %d, Message: %s", r)
       ELSE IF decodeTags(r.tags).err
       THEN httpError(StatusInternalServerError,
                      Body("Error parsing Ollama models response.", 0, <<>>))
       ELSE /\ wContentType' = "application/json"
            /\ wStatus' = StatusOK
            /\ wBody' = encodeTags(decodeTags(r.tags).tagsResponse)
    /\ pc' = "done"
    /\ bodyOpen' = FALSE
    /\ UNCHANGED <<req, other, browser, flushed, backendCalls, pos, readFailed, events, received,
                   clientConnected, discAt>>

handleListModels_resp ==
    /\ req.path = ModelsPath
    /\ pc = "calling"
    /\ \E r \in (IF Paired THEN PairListResponses ELSE ListResponses) : listResp(r)

-----------------------------------------------------------------------------
\* The client closes its connection while the handler is blocked on the
\* backend. The outbound request was built with http.NewRequest, without the
\* inbound request's context, and the results of Fprintf are not looked at,
\* so nothing in the handler observes it.
clientDisconnect ==
    /\ pc \in {"calling", "streaming"}
    /\ clientConnected
    /\ clientConnected' = FALSE
    /\ discAt' = pos
    /\ UNCHANGED <<req, other, browser, flushed, pc, backendCalls, resp, bodyOpen, pos, readFailed, wStatus,
                   wContentType, wBody, events, received>>

Next ==
    \/ handleOllamaAction
    \/ callGenerateAPI_connErr
    \/ callGenerateAPI_resp
    \/ callGenerateAPI_scan
    \/ callGenerateAPI_eof
    \/ callGenerateAPI_readErr
    \/ callChatAPI_connErr
    \/ callChatAPI_resp
    \/ callChatAPI_scan
    \/ callChatAPI_eof
    \/ callChatAPI_readErr
    \/ callModelPullAPI_connErr
    \/ callModelPullAPI_resp
    \/ callModelDeleteAPI_connErr
    \/ callModelDeleteAPI_resp
    \/ handleListModels
    \/ handleListModels_connErr
    \/ handleListModels_resp
    \/ clientDisconnect

Spec == Init /\ [][Next]_vars

-----------------------------------------------------------------------------
-----------------------------------------------------------------------------
\* The Timeout of the http.Client a handler makes, in seconds: the limit on
\* the whole exchange with the backend, reading the response body included.
ActionTimeout == 300
ListTimeout == 10

\* Mutant: the clients are made without a Timeout (zero: no limit).
clientTimeoutUnset(r) == 0

clientTimeout(r) == IF r.path = ModelsPath THEN ListTimeout ELSE ActionTimeout

\* What the backend may answer when termination is followed.
LiveStreamResponses ==
    {[state |-> "ok", status |-> StatusOK, lines |-> b, text |-> <<>>, tags |-> NoTags] :
        b \in SeqsUpTo(Lines, LiveMaxLines)}
    \cup {[state |-> "ok", status |-> 404, lines |-> <<>>, text |-> t, tags |-> NoTags] :
             t \in SeqsUpTo(TextPieces, 1)}
LivePlainResponses ==
    {[state |-> "ok", status |-> st, lines |-> <<>>, text |-> t, tags |-> NoTags] :
             st \in {StatusOK, 404}, t \in SeqsUpTo(TextPieces, LiveMaxLines)}
LiveListResponses ==
    {[state |-> "ok", status |-> StatusOK, lines |-> <<>>, text |-> <<>>, tags |-> b] :
        b \in TagsBodies}
    \cup {[state |-> "ok", status |-> 404, lines |-> <<>>, text |-> t, tags |-> NoTags] :
             t \in SeqsUpTo(TextPieces, 1)}

callGenerateAPI_respLive ==
    /\ req.actionType = "generate"
    /\ pc = "calling"
    /\ \E r \in LiveStreamResponses : streamResp(r)
callChatAPI_respLive ==
    /\ req.actionType = "chat"
    /\ pc = "calling"
    /\ \E r \in LiveStreamResponses : streamResp(r)
callModelPullAPI_respLive ==
    /\ req.actionType = "pull"
    /\ pc = "calling"
    /\ \E r \in LivePlainResponses, readOK \in BOOLEAN :
          plainResp(r, readOK, "Error reading Ollama pull response: %s",
                    "Ollama API error pulling model: Status %d, Message: %s")
callModelDeleteAPI_respLive ==
    /\ req.actionType = "delete"
    /\ pc = "calling"
    /\ \E r \in LivePlainResponses, readOK \in BOOLEAN :
          plainResp(r, readOK, "Error reading Ollama delete response: %s",
                    "Ollama API error deleting model: Status %d, Message: %s")
handleListModels_respLive ==
    /\ req.path = ModelsPath
    /\ pc = "calling"
    /\ \E r \in LiveListResponses : listResp(r)

\* The client's Timeout expires while the handler is blocked on the backend.
\* Before the response headers have arrived client.Do / client.Get returns
\* the error; afterwards the read of the body in progress does: the
\* scanner's, io.ReadAll's, or the tags decoder's.
deadlineExceeded ==
    /\ clientTimeout(req) > 0
    /\ \/ callGenerateAPI_connErr
       \/ callChatAPI_connErr
       \/ callModelPullAPI_connErr
       \/ callModelDeleteAPI_connErr
       \/ handleListModels_connErr
       \/ callGenerateAPI_readErr
       \/ callChatAPI_readErr
       \/ /\ req.actionType = "pull"
          /\ pc = "calling"
          /\ \E r \in LivePlainResponses :
                plainResp(r, FALSE, "Error reading Ollama pull response: %s",
                          "Ollama API error pulling model: Status %d, Message: %s")
       \/ /\ req.actionType = "delete"
          /\ pc = "calling"
          /\ \E r \in LivePlainResponses :
                plainResp(r, FALSE, "Error reading Ollama delete response: %s",
                          "Ollama API error deleting model: Status %d, Message: %s")
       \/ /\ req.path = ModelsPath
          /\ pc = "calling"
          /\ \E r \in {l \in LiveListResponses :
                          isSuccess(l.status) /\ decodeTags(l.tags).err} : listResp(r)

InitLive ==
    /\ req \in Requests
    /\ InitLocals
    /\ other = NoOther

NextLive ==
    \/ handleOllamaAction
    \/ callGenerateAPI_connErr
    \/ callGenerateAPI_respLive
    \/ callGenerateAPI_scan
    \/ callGenerateAPI_eof
    \/ callGenerateAPI_readErr
    \/ callChatAPI_connErr
    \/ callChatAPI_respLive
    \/ callChatAPI_scan
    \/ callChatAPI_eof
    \/ callChatAPI_readErr
    \/ callModelPullAPI_connErr
    \/ callModelPullAPI_respLive
    \/ callModelDeleteAPI_connErr
    \/ callModelDeleteAPI_respLive
    \/ handleListModels
    \/ handleListModels_connErr
    \/ handleListModels_respLive
    \/ deadlineExceeded
    \/ clientDisconnect

\* The handler's goroutine runs: the steps it takes on its own, the checks
\* and the dispatch, are taken. What the backend does (answer, send a line,
\* close the body) is under no obligation; the client's timer is, once set.
handlerRuns ==
    \/ handleOllamaAction
    \/ handleListModels

SpecLive ==
    /\ InitLive
    /\ [][NextLive]_vars
    /\ WF_vars(handlerRuns)
    /\ WF_vars(deadlineExceeded)

-----------------------------------------------------------------------------
\* The page served at "/": the click handlers of generateButton and
\* sendChatButton, which fetch the action endpoint and read the event stream.
\* Text is a sequence of pieces; the literal 'data: ' is spelled character
\* by character so that substring() counts as the script does.
DataPrefix == <<"d", "a", "t", "a", ":", " ">>
\* The argument of line.substring(...).
DataOffset == 5
\* The literal '[DONE]' the script compares with.
DoneText == <<"[DONE]">>

\* The requests the page makes: both inputs are checked to be non-empty.
PageRequests ==
    {[path |-> ActionPath, method |-> "POST", jsonOK |-> TRUE, actionType |-> a,
      model |-> "llama2", prompt |-> "hi",
      messages |-> <<[role |-> "user", content |-> "hi"]>>, flusher |-> f] :
        a \in {"generate", "chat"}, f \in BOOLEAN}

\* buffer.split('\n') on the text of one event, "data: <payload>\n\n", less
\* the last element, which lines.pop() puts back into the buffer: the data
\* line and an empty line.
splitLines(ev) ==
    << (IF ev[1] = "data: " THEN DataPrefix ELSE <<ev[1]>>) \o <<ev[2]>>, <<>> >>

RECURSIVE linesOf(_)
linesOf(evs) ==
    IF evs = <<>> THEN <<>> ELSE splitLines(Head(evs)) \o linesOf(Tail(evs))

\* String.prototype.startsWith and substring.
startsWith(text, prefix) ==
    Len(text) >= Len(prefix) /\ SubSeq(text, 1, Len(prefix)) = prefix
substring(text, start) == SubSeq(text, start + 1, Len(text))

\* JSON.parse: white space before the value is skipped; the value must be
\* JSON. Of the object, the fields the script looks at.
RECURSIVE skipSpace(_)
skipSpace(text) ==
    IF text # <<>> /\ Head(text) = " " THEN skipSpace(Tail(text)) ELSE text
JSONparse(data) ==
    LET t == skipSpace(data)
        j == JSONText(t[1])
    IN IF Len(t) = 1 /\ (j.fits \/ t[1] = LineBadType)
       THEN [ok |-> TRUE,
             response |-> IF t[1] = LineBadType THEN "5" ELSE j.response,
             content |-> j.content]
       ELSE [ok |-> FALSE, response |-> "", content |-> ""]

\* The body of the try inside the for loop: parse the data and append what
\* the action's field holds; a parse error is caught and logged.
onData(api, data, b) ==
    LET c == JSONparse(data)
        frag == IF api = "generate" THEN c.response ELSE c.content
    IN [b EXCEPT !.parsed = Append(@, data),
                 !.shown = IF c.ok /\ frag # "" THEN Append(@, frag) ELSE @,
                 !.warned = IF c.ok THEN @ ELSE Append(@, data)]

\* for (const line of lines): the generate handler returns on the sentinel,
\* the chat handler breaks out of the for loop.
RECURSIVE forLines(_, _, _)
forLines(api, lines, b) ==
    IF lines = <<>> THEN b
    ELSE IF ~startsWith(Head(lines), DataPrefix) THEN forLines(api, Tail(lines), b)
    ELSE LET data == substring(Head(lines), DataOffset) IN
         IF data = DoneText
         THEN [b EXCEPT !.cancelled = TRUE,
                        !.state = IF api = "generate" THEN "returned" ELSE @]
         ELSE forLines(api, Tail(lines), onData(api, data, b))

\* await fetch(...) resolves once the relay has sent its status line; a
\* status outside 200..299 makes the handler throw.
fetched ==
    /\ browser.state = "fetching"
    /\ clientConnected
    /\ wStatus # 0
    /\ browser' = [browser EXCEPT
                      !.state = IF wStatus \in 200..299 THEN "reading" ELSE "failed"]
    /\ UNCHANGED <<req, other, flushed, pc, backendCalls, resp, bodyOpen, pos, readFailed,
                   wStatus, wContentType, wBody, events, received, clientConnected,
                   discAt>>

\* One pass of while (true) in which reader.read() returns data: the events
\* that arrived since the last read, each sent whole by a Flush.
pageRead(api) ==
    /\ browser.state = "reading"
    /\ clientConnected
    /\ ~browser.cancelled
    /\ browser.read < Len(received)
    /\ \E n \in 1..(Len(received) - browser.read) :
          browser' = forLines(api,
                              linesOf(SubSeq(received, browser.read + 1, browser.read + n)),
                              [browser EXCEPT !.read = @ + n])
    /\ UNCHANGED <<req, other, flushed, pc, backendCalls, resp, bodyOpen, pos, readFailed,
                   wStatus, wContentType, wBody, events, received, clientConnected,
                   discAt>>

\* reader.read() returns done: the relay's handler has returned and all it
\* sent has been read, or the reader was cancelled. The buffer is empty, as
\* every event ends in "\n\n".
pageEnd ==
    /\ browser.state = "reading"
    /\ clientConnected
    /\ browser.cancelled \/ (pc = "done" /\ browser.read = Len(received))
    /\ browser' = [browser EXCEPT !.state = "returned"]
    /\ UNCHANGED <<req, other, flushed, pc, backendCalls, resp, bodyOpen, pos, readFailed,
                   wStatus, wContentType, wBody, events, received, clientConnected,
                   discAt>>

generateButton_read == req.actionType = "generate" /\ pageRead("generate")
generateButton_end == req.actionType = "generate" /\ pageEnd
sendChatButton_read == req.actionType = "chat" /\ pageRead("chat")
sendChatButton_end == req.actionType = "chat" /\ pageEnd

InitPage ==
    /\ req \in PageRequests
    /\ InitLocals
    /\ other = NoOther

NextPage ==
    \/ handleOllamaAction
    \/ callGenerateAPI_connErr
    \/ callGenerateAPI_respLive
    \/ callGenerateAPI_scan
    \/ callGenerateAPI_eof
    \/ callGenerateAPI_readErr
    \/ callChatAPI_connErr
    \/ callChatAPI_respLive
    \/ callChatAPI_scan
    \/ callChatAPI_eof
    \/ callChatAPI_readErr
    \/ fetched
    \/ generateButton_read
    \/ generateButton_end
    \/ sendChatButton_read
    \/ sendChatButton_end
    \/ clientDisconnect

SpecPage == InitPage /\ [][NextPage]_vars

\* One streaming request whose backend body is followed as bytes.
ScanRequests ==
    {[path |-> ActionPath, method |-> "POST", jsonOK |-> TRUE, actionType |-> a,
      model |-> "llama2", prompt |-> "hi",
      messages |-> <<[role |-> "user", content |-> "hi"]>>, flusher |-> TRUE] :
        a \in {"generate", "chat"}}

InitScan ==
    /\ req \in ScanRequests
    /\ InitLocals
    /\ other = NoOther

NextScan ==
    \/ handleOllamaAction
    \/ callGenerateAPI_respBytes
    \/ callGenerateAPI_scan
    \/ callGenerateAPI_eof
    \/ callGenerateAPI_readErr
    \/ callGenerateAPI_tooLong
    \/ callChatAPI_respBytes
    \/ callChatAPI_scan
    \/ callChatAPI_eof
    \/ callChatAPI_readErr
    \/ callChatAPI_tooLong
    \/ clientDisconnect

SpecScan == InitScan /\ [][NextScan]_vars

-----------------------------------------------------------------------------
\* Two requests. net/http serves each connection in a goroutine of its own,
\* so the steps of two handlers interleave in any order. The variables above
\* are the locals of the handler taking steps, other holds the locals of the
\* handler that is waiting.

\* The requests served in pairs: one request per action and the list request.
PairRequests ==
    {[path |-> ActionPath, method |-> "POST", jsonOK |-> TRUE, actionType |-> a,
      model |-> "llama2", prompt |-> "hi",
      messages |-> <<[role |-> "user", content |-> "hi"]>>, flusher |-> TRUE] :
        a \in ActionTypes}
    \cup {[path |-> ModelsPath, method |-> "GET", jsonOK |-> TRUE, actionType |-> "",
            model |-> "", prompt |-> "", messages |-> <<>>, flusher |-> TRUE]}

\* The locals of the handler taking steps.
Locals ==
    [req |-> req, pc |-> pc, backendCalls |-> backendCalls, resp |-> resp,
     bodyOpen |-> bodyOpen, pos |-> pos, readFailed |-> readFailed,
     wStatus |-> wStatus, wContentType |-> wContentType, wBody |-> wBody,
     events |-> events, flushed |-> flushed, received |-> received,
     clientConnected |-> clientConnected, discAt |-> discAt]

\* The locals of a handler that has not taken a step yet.
StartLocals(r) ==
    [req |-> r, pc |-> "start", backendCalls |-> <<>>, resp |-> NoResp,
     bodyOpen |-> FALSE, pos |-> 0, readFailed |-> FALSE,
     wStatus |-> 0, wContentType |-> "", wBody |-> NoBody,
     events |-> <<>>, flushed |-> 0, received |-> <<>>,
     clientConnected |-> TRUE, discAt |-> 0]

InitPair ==
    /\ req \in PairRequests
    /\ InitLocals
    /\ other \in {StartLocals(r) : r \in PairRequests}

\* Mutant: the events written are kept in one buffer that both handlers use.
switchSharingEvents ==
    /\ Paired
    /\ other' = [Locals EXCEPT !.events = other.events]
    /\ req' = other.req
    /\ pc' = other.pc
    /\ backendCalls' = other.backendCalls
    /\ resp' = other.resp
    /\ bodyOpen' = other.bodyOpen
    /\ pos' = other.pos
    /\ readFailed' = other.readFailed
    /\ wStatus' = other.wStatus
    /\ wContentType' = other.wContentType
    /\ wBody' = other.wBody
    /\ events' = events
    /\ flushed' = other.flushed
    /\ received' = other.received
    /\ clientConnected' = other.clientConnected
    /\ discAt' = other.discAt
    /\ browser' = browser

\* The scheduler lets the other goroutine run: each handler keeps its own
\* locals.
switch ==
    /\ Paired
    /\ other' = Locals
    /\ req' = other.req
    /\ pc' = other.pc
    /\ backendCalls' = other.backendCalls
    /\ resp' = other.resp
    /\ bodyOpen' = other.bodyOpen
    /\ pos' = other.pos
    /\ readFailed' = other.readFailed
    /\ wStatus' = other.wStatus
    /\ wContentType' = other.wContentType
    /\ wBody' = other.wBody
    /\ events' = other.events
    /\ flushed' = other.flushed
    /\ received' = other.received
    /\ clientConnected' = other.clientConnected
    /\ discAt' = other.discAt
    /\ browser' = browser

NextPair ==
    \/ Next
    \/ switch

SpecPair == InitPair /\ [][NextPair]_vars

-----------------------------------------------------------------------------
\* Vocabulary of the properties.

Terminal == <<"data: ", "[DONE]", "\n\n">>
IsData(e) == e # Terminal
DataEvents(evs) == SelectSeq(evs, IsData)
Payloads(evs) == [i \in 1..Len(evs) |-> evs[i][2]]
TerminalCount(evs) == Cardinality({i \in 1..Len(evs) : evs[i] = Terminal})

RECURSIVE IsSubseq(_, _)
IsSubseq(a, b) ==
    IF a = <<>> THEN TRUE
    ELSE IF b = <<>> THEN FALSE
    ELSE IF Head(a) = Head(b) THEN IsSubseq(Tail(a), Tail(b))
    ELSE IsSubseq(a, Tail(b))

\* The request is a generate or chat request.
IsStreamAction == req.actionType \in {"generate", "chat"}
\* The handler has entered its read loop.
Streamed ==
    /\ IsStreamAction
    /\ resp.state = "ok"
    /\ resp.status = 200
    /\ req.flusher

\* A line that parses as a chunk.
WellFormed(line) == line # "" /\ ~Unmarshal(line).err
\* A non-blank line that does not parse as a chunk.
Malformed(line) == line # "" /\ Unmarshal(line).err
\* A well-formed chunk with the completion flag set.
Flagged(line) == WellFormed(line) /\ Unmarshal(line).chunk.Done
\* The output fragment of a chunk for the action being served.
Fragment(line) ==
    LET c == Unmarshal(line).chunk IN
    IF req.actionType = "generate" THEN c.Response
    ELSE IF c.Message.isNil THEN "" ELSE c.Message.Content
\* A well-formed chunk whose output fragment is empty / not empty.
EmptyChunk(line) == WellFormed(line) /\ Fragment(line) = ""
NonEmptyChunk(line) == WellFormed(line) /\ Fragment(line) # ""
\* The data events of the given lines, one per line.
EventsOf(ls) == [i \in 1..Len(ls) |-> <<"data: ", ls[i], "\n\n">>]

-----------------------------------------------------------------------------
\* A generate request served to the end of a stream of N chunks of which
\* the last, and only the last, has the completion flag: the backend answered
\* 200, the connection flushes, no read failed, the client stayed connected.
C1_Case ==
    /\ pc = "done"
    /\ req.actionType = "generate"
    /\ Streamed
    /\ ~readFailed
    /\ clientConnected
    /\ Len(resp.lines) >= 1
    /\ \A i \in 1..Len(resp.lines) :
          WellFormed(resp.lines[i]) /\ (Flagged(resp.lines[i]) <=> i = Len(resp.lines))

\* C1 as stated: the client receives exactly N data events, one per chunk,
\* followed by exactly one terminal event.
C1_Original ==
    C1_Case => received = EventsOf(resp.lines) \o <<Terminal>>

\* C1, amended: for a generate stream of N chunks ending with the only
\* flagged chunk, the client receives one data event for each chunk whose
\* response text is not empty, in backend order, followed by exactly one
\* terminal event; chunks with empty response text produce no data event.
C1_DataPerNonEmptyChunkThenTerminal ==
    C1_Case =>
        /\ received = EventsOf(SelectSeq(resp.lines, NonEmptyChunk)) \o <<Terminal>>
        /\ TerminalCount(received) = 1
        /\ Len(received) <= Len(resp.lines) + 1

\* A full-length stream with an empty-text chunk in it has been relayed.
C1_Witness ==
    /\ C1_Case
    /\ Len(resp.lines) = MaxLines
    /\ \E i \in 1..Len(resp.lines) : EmptyChunk(resp.lines[i])
    /\ \E i \in 1..Len(resp.lines) : NonEmptyChunk(resp.lines[i])

-----------------------------------------------------------------------------
\* C2: in a generate or chat stream the data events written, and those the
\* client receives, are backend lines already read, one line per event, in
\* the backend's order (a subsequence of the lines read so far); the client
\* receives the written events in the order they were written.
C2_EventsAreSubsequenceOfLinesRead ==
    IsStreamAction =>
        /\ \A i \in 1..Len(events) :
              \/ events[i] = Terminal
              \/ \E k \in 1..pos : events[i] = <<"data: ", resp.lines[k], "\n\n">>
        /\ IsSubseq(Payloads(DataEvents(events)), SubSeq(resp.lines, 1, pos))
        /\ IsSubseq(Payloads(DataEvents(received)), SubSeq(resp.lines, 1, pos))
        /\ IsSubseq(received, events)

\* Two different lines have been forwarded and both reached the client.
C2_Witness ==
    /\ IsStreamAction
    /\ Len(DataEvents(received)) >= 2
    /\ received[1] # received[2]
    /\ pos > Len(DataEvents(events))

\* C3: the terminal event is written at most once, exactly when the first
\* well-formed chunk with the completion flag has been processed; it is the
\* last event, the handler has returned, and no line after that chunk is
\* ever read.
C3_TerminalOnceAtFirstFlaggedChunk ==
    IsStreamAction =>
        /\ TerminalCount(events) <= 1
        /\ \A i \in 1..Len(events) : events[i] = Terminal => i = Len(events)
        /\ TerminalCount(events) = 1 <=> (pos >= 1 /\ Flagged(resp.lines[pos]))
        /\ TerminalCount(events) = 1 => pc = "done" /\ ~bodyOpen
        /\ \A i \in 1..(pos - 1) : ~Flagged(resp.lines[i])

\* The terminal event was written while backend lines were still unread.
C3_Witness ==
    /\ IsStreamAction
    /\ pc = "done"
    /\ events # <<>> /\ events[Len(events)] = Terminal
    /\ pos >= 2
    /\ pos < Len(resp.lines)
    /\ Flagged(resp.lines[pos + 1])

\* A step of the read loop that takes a line for which P holds.
Reads(P(_)) ==
    /\ pc = "streaming"
    /\ pos' = pos + 1
    /\ P(resp.lines[pos + 1])

\* Everything the loop works with, other than its position in the stream.
loopState == <<req, pc, resp, bodyOpen, readFailed, wContentType, wBody, events, received>>

\* C4: a chunk with an empty output fragment never becomes a data event:
\* the step that reads one writes nothing but the terminal event its own flag
\* calls for, and without that flag leaves the loop exactly as it was, one
\* line further; so the data events are the non-empty chunks read, in order.
C4_EmptyChunkNotForwarded ==
    /\ [](IsStreamAction =>
            /\ \A i \in 1..Len(events) :
                  events[i] = Terminal \/ ~EmptyChunk(events[i][2])
            /\ DataEvents(events)
                 = EventsOf(SelectSeq(SubSeq(resp.lines, 1, pos), NonEmptyChunk)))
    /\ [][Reads(EmptyChunk) =>
            /\ DataEvents(events') = DataEvents(events)
            /\ DataEvents(received') = DataEvents(received)
            /\ ~Flagged(resp.lines[pos + 1]) => loopState' = loopState]_vars

\* A non-empty chunk was forwarded after an empty chunk had been read.
C4_Witness ==
    /\ IsStreamAction
    /\ pos >= 2
    /\ EmptyChunk(resp.lines[pos - 1])
    /\ NonEmptyChunk(resp.lines[pos])
    /\ received # <<>>
    /\ received[Len(DataEvents(received))] = <<"data: ", resp.lines[pos], "\n\n">>

\* C5: a line that does not parse as a chunk produces no event and leaves
\* the loop as it was, one line further; no event ever carries such a line,
\* and when the handler returns without a read failure the terminal event
\* has been written if any well-formed chunk of the stream had the flag.
C5_MalformedLineSkipped ==
    /\ [](IsStreamAction =>
            /\ \A i \in 1..Len(events) :
                  events[i] = Terminal \/ ~Malformed(events[i][2])
            /\ (Streamed /\ pc = "done" /\ ~readFailed
                   /\ \E i \in 1..Len(resp.lines) : Flagged(resp.lines[i]))
                => (events # <<>> /\ events[Len(events)] = Terminal))
    /\ [][Reads(Malformed) => loopState' = loopState]_vars

\* A chunk was forwarded and the terminal event written after a malformed line.
C5_Witness ==
    /\ IsStreamAction
    /\ pc = "done"
    /\ pos = 2
    /\ Malformed(resp.lines[1])
    /\ received = <<<<"data: ", resp.lines[2], "\n\n">>, Terminal>>

-----------------------------------------------------------------------------
\* C6: when the backend connection fails for a generate or chat request the
\* handler has returned a 502 error response, the response is not in
\* event-stream mode and no data or terminal event was written.
C6_ConnectionFailureIs502NoStream ==
    (IsStreamAction /\ resp.state = "error") =>
        /\ pc = "done"
        /\ wStatus = 502
        /\ wContentType # "text/event-stream"
        /\ wBody # NoBody
        /\ events = <<>>
        /\ received = <<>>
        /\ pos = 0

\* The connection to the backend failed for a chat request.
C6_Witness ==
    /\ req.actionType = "chat"
    /\ resp.state = "error"
    /\ pc = "done"

\* The backend answered with a status outside 200..299.
NonSuccess == resp.state = "ok" /\ (resp.status < 200 \/ resp.status > 299)

\* C7: when the backend answers a generate or chat request with a
\* non-success status the handler has returned one error response with the
\* backend's status code and the backend's body text (white space around it
\* trimmed), not in event-stream mode, with no data or terminal event.
C7_BackendErrorStatusRelayedNoStream ==
    (IsStreamAction /\ NonSuccess) =>
        /\ pc = "done"
        /\ wStatus = resp.status
        /\ wBody.format = "Ollama API error: Status %d, Message: %s"
        /\ wBody.status = resp.status
        /\ wBody.text = TrimSpace(resp.text)
        /\ wContentType # "text/event-stream"
        /\ events = <<>>
        /\ received = <<>>
        /\ pos = 0
        /\ ~bodyOpen

\* The backend answered a generate request 404 with a body ending in a newline.
C7_Witness ==
    /\ req.actionType = "generate"
    /\ resp.state = "ok"
    /\ resp.status = 404
    /\ resp.text = <<"model not found", "\n">>
    /\ wBody.text = <<"model not found">>

\* C8: once the client has disconnected from a generate or chat stream the
\* handler stops reading: at most the read that was in flight completes.
C8_StopsReadingAfterDisconnect ==
    (IsStreamAction /\ ~clientConnected) => pos <= discAt + 1

\* C9: when the chunk just processed has both a non-empty fragment and the
\* completion flag, its raw line is the last data event and the terminal
\* event follows it immediately, as the last two events; for the chat lines
\* {"message":{"content":"Hel"},"done":false} and
\* {"message":{"content":"lo"},"done":true} the client receives exactly
\* those two lines as data events and then data: [DONE].
C9_ContentAndFlagForwardedThenTerminal ==
    /\ (IsStreamAction /\ pos >= 1 /\ NonEmptyChunk(resp.lines[pos])
          /\ Flagged(resp.lines[pos]))
       => /\ Len(events) >= 2
          /\ events[Len(events) - 1] = <<"data: ", resp.lines[pos], "\n\n">>
          /\ events[Len(events)] = Terminal
          /\ clientConnected => received = events
    /\ (req.actionType = "chat" /\ Streamed /\ pc = "done" /\ ~readFailed
          /\ clientConnected /\ resp.lines = <<LineChatHel, LineChatLoDone>>)
       => received = <<<<"data: ", LineChatHel, "\n\n">>,
                       <<"data: ", LineChatLoDone, "\n\n">>,
                       <<"data: ", "[DONE]", "\n\n">>>>

\* The chat scenario of the two lines has been served to the end.
C9_Witness ==
    /\ req.actionType = "chat"
    /\ pc = "done"
    /\ resp.lines = <<LineChatHel, LineChatLoDone>>
    /\ Len(received) = 3

\* C10: when the handler has returned from a stream in which no well-formed
\* chunk has the completion flag, no terminal event was written or received.
C10_NoTerminalWithoutFlag ==
    (Streamed /\ pc = "done" /\ \A i \in 1..Len(resp.lines) : ~Flagged(resp.lines[i]))
        => /\ TerminalCount(events) = 0
           /\ TerminalCount(received) = 0
           /\ ~bodyOpen

\* The backend's stream ended after forwarded chunks, none of them flagged.
C10_Witness ==
    /\ Streamed
    /\ pc = "done"
    /\ ~readFailed
    /\ pos = Len(resp.lines)
    /\ pos >= 2
    /\ \A i \in 1..Len(resp.lines) : ~Flagged(resp.lines[i])
    /\ Len(received) >= 2

-----------------------------------------------------------------------------
\* The action types the relay knows.
KnownActionTypes == {"generate", "chat", "pull", "delete"}

\* A POST to the action endpoint that does not pass validation.
C11_Case ==
    /\ req.path = ActionPath
    /\ req.method = "POST"
    /\ (~req.jsonOK \/ req.actionType \notin KnownActionTypes)

\* C11: a POST to the action endpoint whose body is malformed JSON or whose
\* actionType is not generate, chat, pull or delete is answered with 400,
\* and at no point of its handling is a backend call issued.
C11_InvalidPostIs400NoBackendCall ==
    C11_Case =>
        /\ backendCalls = <<>>
        /\ resp = NoResp
        /\ pc \in {"start", "done"}
        /\ pc = "done" => /\ wStatus = StatusBadRequest
                          /\ wContentType # "text/event-stream"
                          /\ events = <<>>

C11_Witness ==
    /\ C11_Case
    /\ req.jsonOK
    /\ req.actionType = "bogus"
    /\ pc = "done"
    /\ wStatus = StatusBadRequest
    /\ backendCalls = <<>>

-----------------------------------------------------------------------------
\* A request with a method its endpoint does not serve.
C12_Case ==
    \/ req.path = ActionPath /\ req.method # "POST"
    \/ req.path = ModelsPath /\ req.method # "GET"

\* C12: a request with the wrong method (non-POST on the action endpoint,
\* non-GET on the models endpoint) is answered with 405 whatever its body
\* is (malformed, unknown action or valid), and at no point of its handling
\* is a backend call issued.
C12_WrongMethodIs405NoBackendCall ==
    C12_Case =>
        /\ backendCalls = <<>>
        /\ resp = NoResp
        /\ pc \in {"start", "done"}
        /\ pc = "done" => /\ wStatus = StatusMethodNotAllowed
                          /\ wContentType # "text/event-stream"
                          /\ events = <<>>

\* A non-POST request whose body would not pass validation either.
C12_Witness ==
    /\ req.path = ActionPath
    /\ req.method # "POST"
    /\ ~req.jsonOK
    /\ pc = "done"
    /\ wStatus = StatusMethodNotAllowed
    /\ backendCalls = <<>>

-----------------------------------------------------------------------------
\* The backend call failed: no connection, or a status other than 200.
BackendFailed == resp.state = "error" \/ (resp.state = "ok" /\ resp.status # StatusOK)

\* The response is an error response carrying the given status.
ErrorResponse(code) ==
    /\ wStatus = code
    /\ wContentType = "text/plain; charset=utf-8"
    /\ wBody # NoBody
    /\ events = <<>>

\* C14: an operation issues at most one backend call over its lifetime; a
\* call is only ever issued by the first step of the handler, and once the
\* backend connection has failed or the backend has answered with an error
\* status the handler has returned an error response and issues no further
\* call.
C14_AtMostOneBackendCallNoRetry ==
    /\ [](/\ Len(backendCalls) <= 1
          /\ BackendFailed =>
                /\ pc = "done"
                /\ Len(backendCalls) = 1
                /\ ErrorResponse(IF resp.state = "error" THEN StatusBadGateway
                                 ELSE IF readFailed THEN StatusInternalServerError
                                 ELSE resp.status))
    /\ [][backendCalls' # backendCalls =>
            /\ pc = "start"
            /\ backendCalls = <<>>
            /\ Len(backendCalls') = 1]_vars

\* The connection to the backend failed for a pull request.
C14_Witness ==
    /\ req.actionType = "pull"
    /\ resp.state = "error"
    /\ pc = "done"
    /\ Len(backendCalls) = 1
    /\ wStatus = StatusBadGateway

-----------------------------------------------------------------------------
\* The response has been switched to event-stream mode.
EventStreamMode == wContentType = "text/event-stream"

\* An error found before any stream is opened: the request does not pass
\* validation, the backend cannot be reached, or it answers with a status
\* outside 200..299.
ErrorBeforeStream ==
    \/ req.method # "POST"
    \/ ~req.jsonOK
    \/ resp.state = "error"
    \/ NonSuccess

-----------------------------------------------------------------------------
\* The lines the scanner has returned so far.
LinesRead == SubSeq(resp.lines, 1, pos)

\* C16: when reading the backend's stream fails after streaming has started
\* (read error, or the client's timeout elapsing mid-stream), the step that
\* finds the failure writes nothing: the events sent and the events
\* delivered stay as they were and the handler returns. The response then
\* holds no terminal event and no event other than lines read from the
\* backend, no error body, and nothing is sent afterwards.
C16_ReadFailureStopsSilently ==
    /\ [][(IsStreamAction /\ ~readFailed /\ readFailed') =>
            /\ pc = "streaming"
            /\ pc' = "done"
            /\ events' = events
            /\ received' = received
            /\ wBody' = wBody
            /\ wContentType' = wContentType]_vars
    /\ []((IsStreamAction /\ readFailed) =>
            /\ pc = "done"
            /\ TerminalCount(events) = 0
            /\ \A i \in 1..Len(events) :
                  \E k \in 1..Len(LinesRead) :
                      events[i] = <<"data: ", LinesRead[k], "\n\n">> /\ WellFormed(LinesRead[k])
            /\ wBody = NoBody
            /\ wStatus = StatusOK)
    /\ [][(IsStreamAction /\ readFailed) =>
            /\ events' = events
            /\ received' = received
            /\ wBody' = wBody]_vars

\* The stream failed after one event had been delivered and before the
\* backend's remaining lines were read.
C16_Witness ==
    /\ req.actionType = "chat"
    /\ readFailed
    /\ pc = "done"
    /\ Len(events) = 1
    /\ received = events
    /\ pos < Len(resp.lines)

-----------------------------------------------------------------------------
IsPlainAction == req.actionType \in {"pull", "delete"}

\* The format of the error body of each plain action.
PlainErrorFormat ==
    IF req.actionType = "pull"
    THEN "Ollama API error pulling model: Status %d, Message: %s"
    ELSE "Ollama API error deleting model: Status %d, Message: %s"

\* C17: when the backend answers a pull or delete request with a status
\* other than 200 and a body (read in full), the relay's response carries
\* that same status and an error body that contains the backend's status
\* and the backend's body text (white space around it trimmed); the
\* plain-text success body is not written.
C17_PlainErrorStatusAndTextRelayed ==
    (IsPlainAction /\ resp.state = "ok" /\ resp.status # StatusOK /\ ~readFailed) =>
        /\ pc = "done"
        /\ wStatus = resp.status
        /\ wBody.format = PlainErrorFormat
        /\ wBody.status = resp.status
        /\ wBody.text = TrimSpace(resp.text)
        /\ wBody # Body("%s", 0, resp.text)
        /\ wContentType # "text/plain"
        /\ events = <<>>

\* The backend answered a delete request 404 "model not found\n".
C17_Witness ==
    /\ req.actionType = "delete"
    /\ resp.state = "ok"
    /\ resp.status = 404
    /\ resp.text = <<"model not found", "\n">>
    /\ ~readFailed
    /\ wStatus = 404
    /\ wBody.text = <<"model not found">>

-----------------------------------------------------------------------------
\* The formats of the error bodies written for a backend error status.
ApiErrorFormats ==
    {"Ollama API error: Status %d, Message: %s",
     "Ollama API error pulling model: Status %d, Message: %s",
     "Ollama API error deleting model: Status %d, Message: %s",
     "Ollama API error fetching models: Status %d, Message: %s"}

\* The handler took the branch for a backend error status.
TookErrorPath == wBody.format \in ApiErrorFormats

\* The backend's answer was received and, for pull and delete, its body read.
Answered == resp.state = "ok" /\ ~(IsPlainAction /\ readFailed)

\* The handler treated the backend's answer as a success: it opened the
\* event stream, relayed the plain body, or went on to decode the list.
TreatedAsSuccess ==
    CASE IsStreamAction -> EventStreamMode /\ wBody = NoBody
      [] IsPlainAction -> wContentType = "text/plain" /\ wBody = Body("%s", 0, resp.text)
      [] OTHER -> \/ wContentType = "application/json"
                  \/ wBody.format = "Error parsing Ollama models response."

\* C18 as stated: the error path is taken exactly when the backend status is
\* outside 200..299, every 2xx answer being treated as a success.
C18_Original ==
    Answered =>
        /\ TookErrorPath <=> NonSuccess
        /\ ~NonSuccess => TreatedAsSuccess

\* C18: the error path is taken exactly when the backend status is not 200.
\* Only a 200 answer is treated as a success; every other status, 2xx
\* statuses such as 201 included, produces an error response that carries
\* the backend's status.
C18_ErrorPathIffStatusNot200 ==
    Answered =>
        /\ TookErrorPath <=> resp.status # StatusOK
        /\ resp.status = StatusOK => TreatedAsSuccess
        /\ resp.status # StatusOK => /\ wStatus = resp.status
                                     /\ ~TreatedAsSuccess
                                     /\ pc = "done"

\* The backend answered a generate request 201 and the relay answered with
\* an error body and status 201.
C18_Witness ==
    /\ req.actionType = "generate"
    /\ resp.state = "ok"
    /\ resp.status = 201
    /\ TookErrorPath
    /\ wStatus = 201
    /\ ~EventStreamMode

-----------------------------------------------------------------------------
\* The model names of the backend's list, in the backend's order.
BackendNames == [i \in 1..Len(resp.tags.models) |-> resp.tags.models[i].name]

\* The backend answered the list request 200 with a models array.
C19_Case ==
    /\ req.path = ModelsPath
    /\ resp.state = "ok"
    /\ resp.status = StatusOK
    /\ resp.tags.kind = "array"

\* C19: for every successful backend list response (status 200, a body with
\* a models array) the relay answers 200 with a JSON body whose models
\* array holds exactly the backend's model names: same count, same order,
\* nothing but the name of each model.
C19_ListHasBackendNamesInOrder ==
    C19_Case =>
        /\ pc = "done"
        /\ wStatus = StatusOK
        /\ wContentType = "application/json"
        /\ wBody.format = "{\"models\":[{\"name\":%s}, ...]}"
        /\ Len(wBody.text) = Len(resp.tags.models)
        /\ \A i \in 1..Len(wBody.text) : wBody.text[i] = resp.tags.models[i].name
        /\ wBody.text = BackendNames

\* The backend listed two different models.
C19_Witness ==
    /\ C19_Case
    /\ BackendNames = <<"llama2", "mistral">>
    /\ wBody.text = <<"llama2", "mistral">>
    /\ wStatus = StatusOK

-----------------------------------------------------------------------------
\* A request the action endpoint accepts.
Accepted ==
    /\ req.path = ActionPath
    /\ req.method = "POST"
    /\ req.jsonOK
    /\ req.actionType \in KnownActionTypes

\* The one backend request the claim expects for an accepted request.
ExpectedCall ==
    CASE req.actionType = "generate" ->
            [url |-> "http://localhost:11434/api/generate", method |-> "POST",
             payload |-> [model |-> req.model, prompt |-> req.prompt, stream |-> TRUE]]
      [] req.actionType = "chat" ->
            [url |-> "http://localhost:11434/api/chat", method |-> "POST",
             payload |-> [model |-> req.model, messages |-> req.messages, stream |-> TRUE]]
      [] req.actionType = "pull" ->
            [url |-> "http://localhost:11434/api/pull", method |-> "POST",
             payload |-> [name |-> req.model]]
      [] req.actionType = "delete" ->
            [url |-> "http://localhost:11434/api/delete", method |-> "DELETE",
             payload |-> [name |-> req.model]]

\* C20: once an accepted request has been dispatched, the backend calls made
\* for it are exactly one call, to the endpoint of its actionType and to no
\* other: generate to the generate endpoint with {model, prompt,
\* stream=true}, chat to the chat endpoint with {model, the client's
\* messages in the client's order, stream=true}, pull to the pull endpoint
\* by POST, delete to the delete endpoint by DELETE.
C20_DispatchedToMatchingEndpoint ==
    (Accepted /\ pc # "start") => backendCalls = <<ExpectedCall>>

\* A chat request with two messages has been dispatched.
C20_Witness ==
    /\ Accepted
    /\ req.actionType = "chat"
    /\ Len(req.messages) = 2
    /\ req.messages[1] # req.messages[2]
    /\ pc = "streaming"
    /\ Len(backendCalls) = 1
    /\ backendCalls[1].url = ollamaChatAPI
    /\ backendCalls[1].payload.messages = req.messages

-----------------------------------------------------------------------------
\* The output fragment of a chunk for the given action.
FragmentFor(api, line) ==
    LET c == Unmarshal(line).chunk IN
    IF api = "generate" THEN c.Response
    ELSE IF c.Message.isNil THEN "" ELSE c.Message.Content

\* The events a stream of the given action derives from the given backend
\* lines: a data event for each well-formed chunk with a non-empty
\* fragment, up to and including the first chunk with the completion flag,
\* which is followed by the terminal event.
RECURSIVE Derived(_, _)
Derived(api, ls) ==
    IF ls = <<>> THEN <<>>
    ELSE LET l == Head(ls)
             data == IF WellFormed(l) /\ FragmentFor(api, l) # ""
                     THEN <<<<"data: ", l, "\n\n">>>> ELSE <<>>
         IN  IF Flagged(l) THEN data \o <<Terminal>>
             ELSE data \o Derived(api, Tail(ls))

\* The status an operation ends with, from its own request and the
\* backend's answer to it.
OwnStatus(s) ==
    IF s.req.method # (IF s.req.path = ActionPath THEN "POST" ELSE "GET") THEN 405
    ELSE IF s.req.path = ActionPath /\ (~s.req.jsonOK \/ s.req.actionType \notin KnownActionTypes)
    THEN 400
    ELSE IF s.resp.state = "error" THEN 502
    ELSE IF s.req.actionType \in {"pull", "delete"} /\ s.readFailed THEN 500
    ELSE IF s.resp.status = 200 /\ s.resp.tags.kind = "invalid" THEN 500
    ELSE s.resp.status

\* The text an operation's body carries, from the backend's answer to it.
OwnText(s) ==
    IF s.resp.state # "ok" \/ (s.req.actionType \in {"pull", "delete"} /\ s.readFailed)
    THEN <<>>
    ELSE IF s.resp.status # 200 THEN TrimSpace(s.resp.text)
    ELSE IF s.req.actionType \in {"pull", "delete"} THEN s.resp.text
    ELSE [i \in 1..Len(s.resp.tags.models) |-> s.resp.tags.models[i].name]

\* Everything the handler with locals s has produced is determined by its
\* own request and by the backend's answer to that request.
OwnOutcome(s) ==
    /\ Len(s.backendCalls) <= 1
    /\ \A i \in 1..Len(s.backendCalls) :
          /\ s.backendCalls[i].url =
                (CASE s.req.actionType = "generate" -> "http://localhost:11434/api/generate"
                   [] s.req.actionType = "chat" -> "http://localhost:11434/api/chat"
                   [] s.req.actionType = "pull" -> "http://localhost:11434/api/pull"
                   [] s.req.actionType = "delete" -> "http://localhost:11434/api/delete"
                   [] OTHER -> "http://localhost:11434/api/tags")
    /\ s.events = Derived(s.req.actionType, SubSeq(s.resp.lines, 1, s.pos))
    /\ s.received = Derived(s.req.actionType,
                            SubSeq(s.resp.lines, 1,
                                   IF s.clientConnected THEN s.pos ELSE s.discAt))
    /\ s.pc = "done" => /\ s.wStatus = OwnStatus(s)
                        /\ s.wBody.text = OwnText(s)

\* C13: when two relay operations are served in any interleaving (one after
\* the other included), the outcome of each (its backend call, its status,
\* its body, the events it wrote and the events its client received) is
\* determined by its own request and the backend's answer to it, and a step
\* of one handler leaves everything the other handler holds unchanged.
C13_OperationsAreIsolated ==
    /\ [](Paired => OwnOutcome(Locals) /\ OwnOutcome(other))
    /\ [][other' # other => (other' = Locals /\ Locals' = other)]_vars

\* A generate and a chat operation are both in the middle of their streams
\* and each client has received an event of its own stream.
C13_Witness ==
    /\ Paired
    /\ pc = "streaming"
    /\ other.pc = "streaming"
    /\ req.actionType # other.req.actionType
    /\ received # <<>>
    /\ other.received # <<>>
    /\ received # other.received

-----------------------------------------------------------------------------
\* The texts of the backend's lines the scanner has gone through, each as
\* the backend sent it, without the line end that followed it.
TextsRead == {resp.raw[k].text : k \in 1..pos}

\* C21: every event written is "data: ", a payload and a blank line ("\n\n");
\* the payload of a data event is the text of a backend line that was read,
\* exactly as the backend sent it up to its line end ("\n" or "\r\n"), and
\* the terminal event is the literal "data: [DONE]" and a blank line.
C21_EventsCarryRawLines ==
    (resp.state = "ok" /\ "raw" \in DOMAIN resp) =>
        \A i \in 1..Len(events) :
            /\ Len(events[i]) = 3
            /\ events[i][1] = "data: "
            /\ events[i][3] = "\n\n"
            /\ \/ events[i][2] = "[DONE]"
               \/ events[i][2] \in TextsRead

\* The backend sent one final chunk ended by "\r\n"; the client got the
\* chunk's text and the terminal event.
C21_Witness ==
    /\ req.actionType = "generate"
    /\ resp.state = "ok"
    /\ "raw" \in DOMAIN resp
    /\ resp.raw = <<[text |-> LineGenLoDone, end |-> "\r\n"]>>
    /\ events = <<<<"data: ", LineGenLoDone, "\n\n">>, <<"data: ", "[DONE]", "\n\n">>>>
    /\ received = events

-----------------------------------------------------------------------------
\* C22: whenever the handler is about to call scanner.Scan() again, waiting
\* for the backend's next line, every event it has written for the lines
\* read so far has been flushed; a step that writes events also flushes
\* them, so no event is held back while the backend is still producing.
C22_EventsFlushedBeforeNextRead ==
    /\ []((IsStreamAction /\ pc = "streaming") => flushed = Len(events))
    /\ [][(IsStreamAction /\ events' # events) => flushed' = Len(events')]_vars

\* One event has been written and flushed and the backend has more lines
\* to send.
C22_Witness ==
    /\ IsStreamAction
    /\ pc = "streaming"
    /\ pos = 1
    /\ pos < Len(resp.lines)
    /\ Len(events) = 1
    /\ flushed = 1

-----------------------------------------------------------------------------
\* The request lacks a field its actionType requires: the model for every
\* action, the prompt for generate, the messages for chat. A field absent
\* from the body decodes to its zero value.
LacksRequiredField ==
    /\ req.path = ActionPath
    /\ req.actionType \in KnownActionTypes
    /\ \/ req.model = ""
       \/ req.actionType = "generate" /\ req.prompt = ""
       \/ req.actionType = "chat" /\ req.messages = <<>>

\* C23: a request that lacks a field required by its actionType does not
\* reach the backend.
C23_MissingFieldNotForwarded ==
    LacksRequiredField => backendCalls = <<>>

-----------------------------------------------------------------------------
\* C24: when the backend answers a pull or delete request with status 200,
\* the relay's response is the backend's whole body, unchanged, as plain
\* text with status 200; nothing is written to the client before the body
\* has been read in full, and a body whose reading failed is not relayed,
\* not even in part.
C24_PlainSuccessBodyRelayedWhole ==
    /\ (IsPlainAction /\ resp.state = "ok" /\ resp.status = StatusOK /\ ~readFailed) =>
           /\ pc = "done"
           /\ wStatus = StatusOK
           /\ wContentType = "text/plain"
           /\ wBody = Body("%s", 0, resp.text)
           /\ events = <<>>
    /\ (IsPlainAction /\ pc # "done") =>
           /\ wStatus = 0
           /\ wContentType = ""
           /\ wBody = NoBody
    /\ (IsPlainAction /\ readFailed) =>
           /\ wStatus = StatusInternalServerError
           /\ wBody.text = <<>>
           /\ wContentType # "text/plain"

C24_Witness ==
    /\ req.actionType = "pull"
    /\ resp.state = "ok"
    /\ resp.status = StatusOK
    /\ resp.text = <<" ", "model not found", "\n">>
    /\ ~readFailed
    /\ pc = "done"
    /\ wStatus = StatusOK
    /\ wBody.text = <<" ", "model not found", "\n">>

-----------------------------------------------------------------------------
\* C26: whenever a handler that obtained a response from the backend has
\* returned, whichever way it returned (non-200 status, missing flusher,
\* completion chunk, end of stream, read error, body relayed, list encoded),
\* the body of that response has been closed; the body is open only while
\* the handler is inside its streaming loop.
C26_BackendBodyClosedOnReturn ==
    /\ (pc = "done" /\ resp.state = "ok") => ~bodyOpen
    /\ bodyOpen => (pc = "streaming" /\ resp.state = "ok")

\* A chat handler returned on a read error after forwarding a chunk.
C26_Witness ==
    /\ req.actionType = "chat"
    /\ resp.state = "ok"
    /\ pc = "done"
    /\ readFailed
    /\ pos > 0
    /\ events # <<>>
    /\ ~bodyOpen

-----------------------------------------------------------------------------
\* The line is a chunk with a non-empty "response" text.
HasResponseText(line) ==
    LET j == JSONText(line) IN j.fits /\ j.hasResponse /\ j.response # ""
\* The line is a chunk with a "message" whose content is not empty.
HasMessageContent(line) ==
    LET j == JSONText(line) IN j.fits /\ j.hasMessage /\ j.content # ""
\* The line is a chunk that carries the content field of the action served.
HasOwnContent(line) ==
    IF req.actionType = "generate" THEN HasResponseText(line)
    ELSE HasMessageContent(line)
\* The line is a chunk shaped for the other streaming action: it carries that
\* action's content field and not the one of the action served.
WrongShaped(line) ==
    /\ WellFormed(line)
    /\ ~HasOwnContent(line)
    /\ IF req.actionType = "generate" THEN HasMessageContent(line)
       ELSE HasResponseText(line)

\* C27: whether a chunk is forwarded depends only on the content field of
\* the action served (generate: a non-empty response text; chat: a message
\* with non-empty content); the other field is ignored. A chunk shaped for
\* the other action is therefore never forwarded, while its completion flag
\* still ends the stream with the terminal event.
C27_ForwardingByOwnContentField ==
    /\ [](IsStreamAction =>
            /\ DataEvents(events) = EventsOf(SelectSeq(LinesRead, HasOwnContent))
            /\ \A i \in 1..pos :
                  (WrongShaped(resp.lines[i]) /\ Flagged(resp.lines[i])) =>
                      /\ pc = "done"
                      /\ i = pos
                      /\ events[Len(events)] = Terminal)
    /\ [][Reads(WrongShaped) =>
            /\ DataEvents(events') = DataEvents(events)
            /\ Flagged(resp.lines[pos + 1]) =>
                  /\ events' = Append(events, Terminal)
                  /\ pc' = "done"
            /\ ~Flagged(resp.lines[pos + 1]) => events' = events]_vars

\* A chat stream read a generate-shaped chunk with the completion flag after
\* a chat chunk: only the chat chunk was forwarded, then the terminal event.
C27_Witness ==
    /\ req.actionType = "chat"
    /\ pc = "done"
    /\ pos = 2
    /\ resp.lines[1] = LineChatHel
    /\ resp.lines[2] = LineGenLoDone
    /\ events = <<SSEEvent(LineChatHel), Terminal>>

-----------------------------------------------------------------------------
\* The backend line is the literal text of the terminal payload.
IsSentinel(line) == line = LineSentinel

\* C30: no backend line is ever forwarded with the payload "[DONE]": an
\* event with that payload, written or received, is the terminal event the
\* relay wrote for the flagged chunk it has just read, and a backend line
\* that reads "[DONE]" itself writes nothing. The client therefore sees
\* "data: [DONE]" only when the relay detected a completion flag.
C30_DonePayloadOnlyFromFlag ==
    /\ [](IsStreamAction =>
            /\ \A i \in 1..Len(events) :
                  events[i][2] = "[DONE]" =>
                      /\ i = Len(events)
                      /\ pos >= 1
                      /\ Flagged(resp.lines[pos])
                      /\ ~IsSentinel(resp.lines[pos])
            /\ \A i \in 1..Len(received) :
                  received[i][2] = "[DONE]" =>
                      \E k \in 1..pos : Flagged(resp.lines[k]))
    /\ [][Reads(IsSentinel) =>
            /\ events' = events
            /\ received' = received]_vars

\* A generate stream whose backend sent a "[DONE]" line of its own ended
\* without a flagged chunk: the client got the chunk and no terminal event.
C30_Witness ==
    /\ req.actionType = "generate"
    /\ pc = "done"
    /\ ~readFailed
    /\ resp.lines = <<LineGenHel, LineSentinel>>
    /\ pos = 2
    /\ events = <<SSEEvent(LineGenHel)>>
    /\ received = events

-----------------------------------------------------------------------------
\* The backend's body is followed as bytes.
HasRaw == "raw" \in DOMAIN resp
\* The texts of the first n lines of the body, without their line ends.
RawTexts(n) == [k \in 1..n |-> resp.raw[k].text]
\* The body's last line is not terminated by a newline.
OpenEnded ==
    /\ HasRaw
    /\ resp.raw # <<>>
    /\ resp.raw[Len(resp.raw)].end \in OpenEnds
IsBlank(line) == line = LineBlank

\* C28: a last line of the backend's body that is not terminated by a
\* newline is processed like a terminated one: the lines the loop has
\* processed are the texts of the body's lines whatever their ends, the
\* events written are those of the texts with content, a stream that ends
\* without error or completion flag has processed every line including an
\* unterminated last one, and a flagged unterminated last line ends the
\* stream with the terminal event. A blank line, wherever it stands, leaves
\* the loop as it was.
C28_OpenLastLineLikeTerminated ==
    /\ []((HasRaw /\ Streamed) =>
            /\ pos <= Len(resp.raw)
            /\ SubSeq(resp.lines, 1, pos) = RawTexts(pos)
            /\ DataEvents(events) = EventsOf(SelectSeq(RawTexts(pos), HasOwnContent))
            /\ (pc = "done" /\ ~readFailed /\ TerminalCount(events) = 0) =>
                   pos = Len(resp.raw)
            /\ (pc = "done" /\ ~readFailed /\ OpenEnded
                  /\ \A k \in 1..(Len(resp.raw) - 1) : ~Flagged(resp.raw[k].text)) =>
                   /\ pos = Len(resp.raw)
                   /\ Flagged(resp.raw[pos].text) <=> TerminalCount(events) = 1)
    /\ [][(HasRaw /\ Reads(IsBlank)) => loopState' = loopState]_vars

\* A body of a blank line and an unterminated flagged chunk has been
\* relayed: the chunk and the terminal event were written.
C28_Witness ==
    /\ req.actionType = "generate"
    /\ HasRaw
    /\ resp.raw = <<[text |-> LineBlank, end |-> "\r\n"],
                    [text |-> LineGenLoDone, end |-> ""]>>
    /\ pc = "done"
    /\ pos = 2
    /\ events = <<SSEEvent(LineGenLoDone), Terminal>>

-----------------------------------------------------------------------------
\* The body has a line that does not fit the scanner's buffer.
HasTooLong == HasRaw /\ \E n \in 1..Len(resp.raw) : TooLong(resp.raw[n].text)
\* The index of the first such line.
FirstTooLong ==
    CHOOSE n \in 1..Len(resp.raw) :
        /\ TooLong(resp.raw[n].text)
        /\ \A k \in 1..(n - 1) : ~TooLong(resp.raw[k].text)

\* C29: a backend line that does not fit the scanner's buffer ends the
\* stream: neither that line nor any line after it is ever processed or
\* forwarded, and unless a flagged chunk came before it the handler returns
\* on the scanner's error without having written the terminal event, even
\* when the long line or a later line is a well-formed completion chunk.
C29_TooLongLineEndsStream ==
    (HasTooLong /\ Streamed) =>
        /\ pos < FirstTooLong
        /\ Len(resp.lines) < FirstTooLong
        /\ \A i \in 1..Len(events) :
              events[i] = Terminal
                 \/ \E k \in 1..(FirstTooLong - 1) : events[i] = SSEEvent(resp.raw[k].text)
        /\ (\A k \in 1..(FirstTooLong - 1) : ~Flagged(resp.raw[k].text)) =>
              /\ TerminalCount(events) = 0
              /\ TerminalCount(received) = 0
              /\ pc = "done" => readFailed

\* The handler returned on a body whose first line is too long and whose
\* second line is a completion chunk: nothing was read or written.
C29_Witness ==
    /\ req.actionType = "generate"
    /\ HasRaw
    /\ resp.raw = <<[text |-> LineGenHuge, end |-> "\n"],
                    [text |-> LineGenLoDone, end |-> "\n"]>>
    /\ pc = "done"
    /\ readFailed
    /\ pos = 0
    /\ events = <<>>
    /\ received = <<>>

-----------------------------------------------------------------------------
-----------------------------------------------------------------------------
\* The page's stream reader has processed the line "data: [DONE]".
TerminalProcessed ==
    \E i \in 1..browser.read : received[i] = Terminal

\* C31: when the page's stream reader processes the line "data: [DONE]" it
\* takes it for the end-of-stream sentinel: it cancels the reader and does
\* not hand the line's data to JSON.parse.
C31_PageRecognisesTerminal ==
    TerminalProcessed =>
        /\ browser.cancelled
        /\ \A k \in 1..Len(browser.parsed) :
              browser.parsed[k][Len(browser.parsed[k])] # "[DONE]"
        /\ browser.warned = <<>>

-----------------------------------------------------------------------------
\* A list request that got as far as the backend call and has been answered.
ListAnswered == req.path = ModelsPath /\ req.method = "GET" /\ pc = "done"
\* A JSON body with a models member has been written to the client.
ModelsBodyWritten ==
    \/ wContentType = "application/json"
    \/ wBody.format \in {"{\"models\":null}", "{\"models\":[{\"name\":%s}, ...]}"}

\* C32: for the list action, a failed connection to the backend is answered
\* 502, a backend status other than 200 is answered with that same status,
\* and a 200 body that does not decode is answered 500; in none of these
\* cases is a models body written, and no event either.
C32_ListErrorsByKind ==
    ListAnswered =>
        /\ resp = ConnErr =>
              /\ wStatus = StatusBadGateway
              /\ wBody = Body("Could not connect to Ollama to list models.", 0, <<>>)
              /\ ~ModelsBodyWritten
        /\ (resp.state = "ok" /\ resp.status # StatusOK) =>
              /\ wStatus = resp.status
              /\ wBody.format = "Ollama API error fetching models: Status %d, Message: %s"
              /\ wBody.status = resp.status
              /\ ~ModelsBodyWritten
        /\ (resp.state = "ok" /\ resp.status = StatusOK /\ resp.tags.kind = "invalid") =>
              /\ wStatus = StatusInternalServerError
              /\ wBody = Body("Error parsing Ollama models response.", 0, <<>>)
              /\ ~ModelsBodyWritten
        /\ events = <<>>
        /\ ~bodyOpen

\* The backend answered the list request 200 with a body that is not JSON.
C32_Witness ==
    /\ ListAnswered
    /\ resp.state = "ok"
    /\ resp.status = StatusOK
    /\ resp.tags.kind = "invalid"
    /\ wStatus = StatusInternalServerError

-----------------------------------------------------------------------------
\* The backend answered a generate or chat request 200 on a connection that
\* does not support flushing.
NoFlusherCase ==
    /\ IsStreamAction
    /\ resp.state = "ok"
    /\ resp.status = StatusOK
    /\ ~req.flusher

\* C33: when the client's connection does not support flushing, a generate
\* or chat handler returns as soon as the backend has answered 200: it is
\* never inside the read loop, no backend line is read, no data event and
\* no terminal event is written or received, and the backend's body is
\* closed; the event-stream headers have been set and no error is written.
C33_NoFlusherReturnsWithoutReading ==
    /\ [](NoFlusherCase =>
            /\ pc = "done"
            /\ pos = 0
            /\ ~readFailed
            /\ events = <<>>
            /\ received = <<>>
            /\ flushed = 0
            /\ ~bodyOpen
            /\ wContentType = "text/event-stream"
            /\ wBody = NoBody)
    /\ [][(IsStreamAction /\ ~req.flusher) => pc' # "streaming"]_vars

\* A chat handler returned on such a connection although the backend had a
\* full stream with a completion chunk to send.
C33_Witness ==
    /\ NoFlusherCase
    /\ req.actionType = "chat"
    /\ Len(resp.lines) = MaxLines
    /\ \E i \in 1..Len(resp.lines) : Flagged(resp.lines[i])
    /\ \E i \in 1..Len(resp.lines) : NonEmptyChunk(resp.lines[i])
    /\ pc = "done"
    /\ events = <<>>

====
